---- MODULE Spec2Model ----
(***************************************************************************)
(* Model of the packaging geometry and layout engine of VirtualPackaging:  *)
(*   - PackagingLabeling.recommend_text_placement and                      *)
(*     PackagingLabeling._refine_text_placements                           *)
(*     (src/core/intelligence/labeling.py)                                 *)
(*   - add_padding and optimize_box_dimensions                             *)
(*     (src/core/design/box_generator.py)                                  *)
(*                                                                         *)
(* Specifications: Spec (one layout call, step by step), SpecRepeat       *)
(* (consecutive layout calls on one engine), SpecCaller (a caller writes   *)
(* to a returned style between two calls), SpecWorkers (two interleaved    *)
(* calls), SpecBox (add_padding and optimize_box_dimensions applied to     *)
(* drawn inputs), SpecGen (box and holder generation).                     *)
(*                                                                         *)
(* Lengths are real numbers in the program.  The model computes with exact *)
(* rationals <<numerator, denominator>> (denominator > 0, lowest terms),   *)
(* so every comparison the code makes is decided exactly; floating-point   *)
(* rounding is not modelled.                                               *)
(***************************************************************************)
EXTENDS Integers, Sequences, FiniteSets, TLC

VARIABLES default_styles, call, first, ncalls, box, opt, gen, jobs

vars == <<default_styles, call, first, ncalls, box, opt, gen, jobs>>

----------------------------------------------------------------------------
(* Exact rational arithmetic *)

Abs(n) == IF n < 0 THEN -n ELSE n

RECURSIVE GCD(_, _)
GCD(a, b) == IF b = 0 THEN a ELSE GCD(b, a % b)

Norm(n, d) ==
    LET g == GCD(Abs(n), Abs(d))
        s == IF d < 0 THEN -1 ELSE 1
    IN  <<(s * n) \div g, (s * d) \div g>>

R(n) == <<n, 1>>
RAdd(a, b) == Norm(a[1] * b[2] + b[1] * a[2], a[2] * b[2])
RSub(a, b) == Norm(a[1] * b[2] - b[1] * a[2], a[2] * b[2])
RMul(a, b) == Norm(a[1] * b[1], a[2] * b[2])
RDiv(a, b) == Norm(a[1] * b[2], a[2] * b[1])
RHalf(a) == Norm(a[1], 2 * a[2])
RLt(a, b) == a[1] * b[2] < b[1] * a[2]
RLe(a, b) == a[1] * b[2] <= b[1] * a[2]
RCube(a) == RMul(a, RMul(a, a))

Max(a, b) == IF a >= b THEN a ELSE b

----------------------------------------------------------------------------
(* Bounds of the model *)

\* longest text_content mapping a call is given
MaxElems == 4
\* how many iterations beyond the number of supplied elements the stacking
\* loop of one surface is followed before the model stops extending the run
MaxExtraIter == 2
\* largest extent of the product's bounding box along one axis
MaxExtent == 3
\* largest value of a linear constraint (max_width, max_height, max_depth)
MaxBound == 3
\* number of consecutive calls followed on one engine
MaxCalls == 3
\* largest extent along one axis of the product meshes the generators are given
MaxMeshExtent == 2

----------------------------------------------------------------------------
(* Enumerations and tables of labeling.py *)

\* TextPlacement values that are box surfaces (keys of `surfaces`)
Surfaces == {"front", "back", "top", "bottom", "left", "right"}

\* TextElementType members the model supplies as keys, plus "foo", a key that
\* is no TextElementType member (an unknown element key)
ElementKeys ==
    {"product_name", "brand", "description", "warning", "barcode",
     "recycling", "foo"}

\* self.default_styles: font_size of the styled element types
StyledKeys ==
    {"product_name", "description", "features", "instructions", "warning",
     "regulatory"}

InitialDefaultStyles ==
    [k \in StyledKeys |->
        CASE k = "product_name" -> [font_size |-> 24, font_weight |-> "bold", color |-> "#000000"]
          [] k = "description"  -> [font_size |-> 12, font_weight |-> "normal", color |-> "#333333"]
          [] k = "features"     -> [font_size |-> 14, font_weight |-> "normal", color |-> "#333333"]
          [] k = "instructions" -> [font_size |-> 10, font_weight |-> "normal", color |-> "#333333"]
          [] k = "warning"      -> [font_size |-> 12, font_weight |-> "bold", color |-> "#FF0000"]
          [] OTHER              -> [font_size |-> 8, font_weight |-> "normal", color |-> "#333333"]]

\* faulty variant: the recycling mark is placed on a side panel
default_placements_side_panel(k) ==
    CASE k \in {"product_name", "brand"} -> "front"
      [] k = "barcode"                   -> "bottom"
      [] k = "recycling"                 -> "right"
      [] OTHER                           -> "back"

\* default_placements.get(element_type, TextPlacement.BACK)
default_placements(k) ==
    CASE k \in {"product_name", "brand"} -> "front"
      [] k \in {"barcode", "recycling"}  -> "bottom"
      [] OTHER                           -> "back"

\* surfaces[s] = (surface width, surface height) for box (width, height, depth)
surfaces(b, s) ==
    CASE s \in {"front", "back"} -> <<b[1], b[2]>>
      [] s \in {"top", "bottom"} -> <<b[1], b[3]>>
      [] OTHER                   -> <<b[3], b[2]>>

\* element_priority: priorities.get(element_type, 10)
element_priority(k) ==
    CASE k = "product_name" -> 1
      [] k = "brand"        -> 2
      [] k = "warning"      -> 3
      [] OTHER              -> 10

\* faulty variant: the elements are left in the order of the list
SortByPriority_skipped(s) == s

\* faulty variant: WARNING is missing from the priorities and sorts with the
\* other types
SortByPriority_warning_unranked(s) ==
    SelectSeq(s, LAMBDA k : element_priority(k) = 1)
      \o SelectSeq(s, LAMBDA k : element_priority(k) = 2)
      \o SelectSeq(s, LAMBDA k : element_priority(k) \in {3, 10})

\* elements.sort(key=element_priority): a stable sort
SortByPriority(s) ==
    SelectSeq(s, LAMBDA k : element_priority(k) = 1)
      \o SelectSeq(s, LAMBDA k : element_priority(k) = 2)
      \o SelectSeq(s, LAMBDA k : element_priority(k) = 3)
      \o SelectSeq(s, LAMBDA k : element_priority(k) = 10)

----------------------------------------------------------------------------
(* Inputs of recommend_text_placement *)

\* A content value: a string (is_list = FALSE, one item) or a list of strings;
\* each item is given by its length and the number of "\n" it holds.
Str(n, m) == [is_list |-> FALSE, items |-> <<[len |-> n, nl |-> m]>>]
List(ns) == [is_list |-> TRUE, items |-> [i \in DOMAIN ns |-> [len |-> ns[i], nl |-> 0]]]

RECURSIVE SumLen(_)
SumLen(items) ==
    IF items = <<>> THEN 0 ELSE Head(items).len + SumLen(Tail(items))

RECURSIVE SumNl(_)
SumNl(items) ==
    IF items = <<>> THEN 0 ELSE Head(items).nl + SumNl(Tail(items))

\* content_str: "\n".join(content) for a list, str(content) otherwise;
\* returned as [len |-> len(content_str), nl |-> content_str.count("\n")]
content_str(content) ==
    IF content.is_list
    THEN [len |-> SumLen(content.items) + Max(0, Len(content.items) - 1),
          nl  |-> SumNl(content.items) + Max(0, Len(content.items) - 1)]
    ELSE [len |-> content.items[1].len, nl |-> content.items[1].nl]

\* box_dimensions (width, height, depth) the calls are given
Boxes == {<<260, 100, 400>>, <<260, 100, 50>>, <<100, 300, 200>>, <<0, 0, 0>>}

\* two assignments of content to the element keys
Profiles == {"long", "mixed"}

ContentOf(profile, k) ==
    IF profile = "long" THEN Str(125, 0)
    ELSE CASE k = "product_name" -> Str(12, 0)
           [] k = "brand"        -> Str(125, 0)
           [] k = "description"  -> List(<<40, 40, 40>>)
           [] k = "warning"      -> Str(30, 1)
           [] k = "barcode"      -> Str(13, 0)
           [] k = "recycling"    -> Str(60, 0)
           [] OTHER              -> Str(0, 0)

\* sequences of distinct keys of length at most n: the insertion orders of a dict
RECURSIVE KeySeqs(_)
KeySeqs(n) ==
    IF n = 0 THEN {<<>>}
    ELSE LET shorter == KeySeqs(n - 1)
         IN  shorter \cup
             UNION {{Append(s, k) : k \in ElementKeys \ {s[i] : i \in DOMAIN s}} :
                        s \in {t \in shorter : Len(t) = n - 1}}

TextContents(n) ==
    {[i \in DOMAIN ks |-> [key |-> ks[i], content |-> ContentOf(p, ks[i])]] :
        ks \in KeySeqs(n), p \in Profiles}

Keys(tc) == {tc[i].key : i \in DOMAIN tc}
KeySeq(tc) == [i \in DOMAIN tc |-> tc[i].key]

----------------------------------------------------------------------------
(* recommend_text_placement, lines 823-901 *)

EmptyFn == [k \in {} |-> 0]

\* int(q) for q = n / d with d > 0: truncation toward zero
IntTrunc(n, d) == IF n >= 0 THEN n \div d ELSE -((-n) \div d)

\* self.default_styles.get(element_type, {}).get("font_size", 12)
font_size(styles, k) == IF k \in DOMAIN styles THEN styles[k].font_size ELSE 12

\* chars_per_line = int(width / (font_size * 0.6))
chars_per_line(width, fs) == IntTrunc(5 * width, 3 * fs)

\* height_needed = lines * font_size * 1.2 with
\* lines = len(content_str) / max(1, chars_per_line) + content_str.count("\n")
height_needed(styles, width, k, content) ==
    LET cs    == content_str(content)
        fs    == font_size(styles, k)
        cpl   == Max(1, chars_per_line(width, fs))
        lines == RAdd(Norm(cs.len, cpl), R(cs.nl))
    IN  RMul(RMul(lines, R(fs)), <<6, 5>>)

\* space_requirements[element_type]
space_requirements(styles, b, tc) ==
    [k \in Keys(tc) |->
        LET i == CHOOSE j \in DOMAIN tc : tc[j].key = k
        IN  [width  |-> Norm(4 * b[1], 5),
             height |-> height_needed(styles, b[1], k, tc[i].content)]]

\* style = self.default_styles.get(element_type, {}): the engine's own dict
\* when the type is styled (an alias, not a copy), a fresh empty dict otherwise
style_of(styles, k) ==
    IF k \in DOMAIN styles THEN [alias |-> "default_styles", key |-> k]
    ELSE [alias |-> "fresh", key |-> k]

\* result[element_type] as initialised with the default placement
initial_record(styles, b, space, k) ==
    LET placement == default_placements(k)
        dims      == surfaces(b, placement)
    IN  [placement   |-> placement,
         x           |-> Norm(dims[1], 2),
         y           |-> Norm(dims[2], 2),
         orientation |-> IF placement \in {"left", "right"}
                            /\ RLt(R(dims[1]), space[k].width)
                         THEN "vertical" ELSE "horizontal",
         style       |-> style_of(styles, k)]

\* faulty variant: records only for the keys default_placements knows
initial_result_known_keys(styles, b, tc, space) ==
    [k \in Keys(tc) \ {"foo"} |-> initial_record(styles, b, space, k)]

initial_result(styles, b, tc, space) ==
    [k \in Keys(tc) |-> initial_record(styles, b, space, k)]

\* faulty variant: the call shrinks the font of the styled elements it lays out,
\* writing into the engine's style dicts
styles_after_call_shrunk(styles, tc) ==
    [k \in DOMAIN styles |->
        IF k \in {tc[i].key : i \in DOMAIN tc}
        THEN [styles[k] EXCEPT !.font_size = @ - 2]
        ELSE styles[k]]

\* faulty variant: the style lookup is a setdefault that enters a default style
\* into the engine's styles for every element type that had none
styles_after_call_setdefault(styles, tc) ==
    [k \in DOMAIN styles \cup Keys(tc) |->
        IF k \in DOMAIN styles THEN styles[k]
        ELSE [font_size |-> 12, font_weight |-> "normal", color |-> "#000000"]]

\* self.default_styles after the call: it is only read (lines 862 and 894)
styles_after_call(styles, tc) == styles

IdleCall ==
    [pc |-> "idle", box |-> <<0, 0, 0>>, tc |-> <<>>, space |-> EmptyFn,
     result |-> EmptyFn, ebs_keys |-> <<>>, ebs |-> [s \in Surfaces |-> <<>>],
     it |-> 0, it_used |-> 0, surface |-> "front", idx |-> 0,
     y_position |-> R(0), alone |-> {}]

\* the call up to the point where _refine_text_placements is entered
begin_call(styles, b, tc) ==
    LET space == space_requirements(styles, b, tc)
    IN  [IdleCall EXCEPT !.pc = "refine", !.box = b, !.tc = tc,
                         !.space = space,
                         !.result = initial_result(styles, b, tc, space)]

----------------------------------------------------------------------------
(* _refine_text_placements, lines 924-981 *)

\* the keys of elements_by_surface in insertion order: the surfaces in the
\* order in which the elements of initial_placements first name them
RECURSIVE first_surfaces(_, _, _)
first_surfaces(ks, result, acc) ==
    IF ks = <<>> THEN acc
    ELSE LET s == result[Head(ks)].placement
         IN  first_surfaces(Tail(ks), result,
                 IF \E i \in DOMAIN acc : acc[i] = s THEN acc ELSE Append(acc, s))

\* elements_by_surface[s]: the elements placed on s, in insertion order
elements_on(ks, result, s) ==
    SelectSeq(ks, LAMBDA k : result[k].placement = s)

\* lines 924-934: group the elements, copy the result, start the iteration
\* over elements_by_surface.items()
group_elements(c) ==
    LET keys == first_surfaces(KeySeq(c.tc), c.result, <<>>)
    IN  [c EXCEPT !.pc = "surfaces",
                  !.ebs_keys = keys,
                  !.ebs = [s \in Surfaces |-> elements_on(KeySeq(c.tc), c.result, s)],
                  !.it = 1,
                  !.it_used = Len(keys)]

\* the dict iterator finds the dict resized: RuntimeError
size_changed(c) == Len(c.ebs_keys) # c.it_used

\* the dict iterator is exhausted
exhausted(c) == c.it > Len(c.ebs_keys)

\* faulty variant: the stack starts at the very top of the surface
next_surface_no_top_margin(c) ==
    LET s == c.ebs_keys[c.it]
    IN  IF Len(c.ebs[s]) <= 1
        THEN [c EXCEPT !.it = @ + 1, !.surface = s,
                       !.alone = @ \cup {c.ebs[s][i] : i \in DOMAIN c.ebs[s]}]
        ELSE [c EXCEPT !.it = @ + 1, !.surface = s,
                       !.ebs[s] = SortByPriority(@),
                       !.y_position = R(0),
                       !.idx = 1,
                       !.pc = "stack"]

\* faulty variant: a surface is skipped only when it holds no element, and a
\* single element is stacked like any other
next_surface_stacks_single(c) ==
    LET s == c.ebs_keys[c.it]
    IN  IF Len(c.ebs[s]) < 1
        THEN [c EXCEPT !.it = @ + 1, !.surface = s]
        ELSE [c EXCEPT !.it = @ + 1, !.surface = s,
                       !.alone = IF Len(c.ebs[s]) <= 1
                                 THEN @ \cup {c.ebs[s][i] : i \in DOMAIN c.ebs[s]}
                                 ELSE @,
                       !.ebs[s] = SortByPriority(@),
                       !.y_position = R(20),
                       !.idx = 1,
                       !.pc = "stack"]

\* lines 934-953: take the next surface; skip it when it holds at most one
\* element, otherwise sort its elements and start stacking at y_position = 20.
\* alone keeps the elements the loop found alone on their surface (line 938)
next_surface(c) ==
    LET s == c.ebs_keys[c.it]
    IN  IF Len(c.ebs[s]) <= 1
        THEN [c EXCEPT !.it = @ + 1, !.surface = s,
                       !.alone = @ \cup {c.ebs[s][i] : i \in DOMAIN c.ebs[s]}]
        ELSE [c EXCEPT !.it = @ + 1, !.surface = s,
                       !.ebs[s] = SortByPriority(@),
                       !.y_position = R(20),
                       !.idx = 1,
                       !.pc = "stack"]

\* lines 966-969: the alternative surface
overflow_surface(s) == IF s = "front" THEN "back" ELSE "bottom"

\* line 964: y_position > surface_height - 20, y_position already moved down
\* past the element and its margin
running_out(y_position, surface_height) ==
    RLt(R(surface_height - 20), y_position)

\* faulty variant: the space check is made on the position the element starts at,
\* before y_position is moved down
stack_element_checks_start(c) ==
    LET s       == c.surface
        e       == c.ebs[s][c.idx]
        h       == c.space[e].height
        H       == surfaces(c.box, s)[2]
        y_next  == RAdd(RAdd(c.y_position, h), R(10))
        new     == overflow_surface(s)
    IN  IF running_out(c.y_position, H)
        THEN [c EXCEPT !.result[e].placement = new,
                       !.result[e].x = Norm(surfaces(c.box, new)[1], 2),
                       !.result[e].y = RAdd(R(20), RHalf(h)),
                       !.ebs_keys = IF \E i \in DOMAIN @ : @[i] = new
                                    THEN @ ELSE Append(@, new),
                       !.ebs[new] = Append(@, e),
                       !.y_position = y_next,
                       !.idx = @ + 1]
        ELSE [c EXCEPT !.result[e].y = RAdd(c.y_position, RHalf(h)),
                       !.y_position = y_next,
                       !.idx = @ + 1]

\* faulty variant: the stacking height is rolled back when the element is moved
\* to the overflow surface
stack_element_rolls_back(c) ==
    LET s       == c.surface
        e       == c.ebs[s][c.idx]
        h       == c.space[e].height
        H       == surfaces(c.box, s)[2]
        y_next  == RAdd(RAdd(c.y_position, h), R(10))
        new     == overflow_surface(s)
    IN  IF running_out(y_next, H)
        THEN [c EXCEPT !.result[e].placement = new,
                       !.result[e].x = Norm(surfaces(c.box, new)[1], 2),
                       !.result[e].y = RAdd(R(20), RHalf(h)),
                       !.ebs_keys = IF \E i \in DOMAIN @ : @[i] = new
                                    THEN @ ELSE Append(@, new),
                       !.ebs[new] = Append(@, e),
                       !.idx = @ + 1]
        ELSE [c EXCEPT !.result[e].y = RAdd(c.y_position, RHalf(h)),
                       !.y_position = y_next,
                       !.idx = @ + 1]

\* lines 955-979: one iteration of the stacking loop, on element
\* elements[idx] of the current surface
stack_element(c) ==
    LET s       == c.surface
        e       == c.ebs[s][c.idx]
        h       == c.space[e].height
        H       == surfaces(c.box, s)[2]
        y_next  == RAdd(RAdd(c.y_position, h), R(10))
        new     == overflow_surface(s)
    IN  IF running_out(y_next, H)
        THEN [c EXCEPT !.result[e].placement = new,
                       !.result[e].x = Norm(surfaces(c.box, new)[1], 2),
                       !.result[e].y = RAdd(R(20), RHalf(h)),
                       !.ebs_keys = IF \E i \in DOMAIN @ : @[i] = new
                                    THEN @ ELSE Append(@, new),
                       !.ebs[new] = Append(@, e),
                       !.y_position = y_next,
                       !.idx = @ + 1]
        ELSE [c EXCEPT !.result[e].y = RAdd(c.y_position, RHalf(h)),
                       !.y_position = y_next,
                       !.idx = @ + 1]

\* the list iterator of the stacking loop has a next element
has_next(c) == c.idx <= Len(c.ebs[c.surface])

----------------------------------------------------------------------------
(* The layout engine as a state machine *)

\* the first call that returned: its arguments, the records it returned and
\* the styles they alias; between: a call with other arguments was made since
NoCall ==
    [set |-> FALSE, box |-> <<0, 0, 0>>, tc |-> <<>>, result |-> EmptyFn,
     styles |-> InitialDefaultStyles, between |-> FALSE]

\* no generator of box_generator.py / internal_structure.py has been called
IdleGen ==
    [pc |-> "idle", op |-> "none", args |-> [kind |-> "none"],
     out |-> [kind |-> "none"], ref |-> [kind |-> "none"]]

\* two workers, neither of which has called recommend_text_placement yet
IdleJobs == <<IdleCall, IdleCall>>

InitLayoutVars ==
    /\ default_styles = InitialDefaultStyles
    /\ call = IdleCall
    /\ first = NoCall
    /\ ncalls = 0
    /\ gen = IdleGen
    /\ jobs = IdleJobs

InitBoxIdle ==
    /\ box = [min_bound |-> <<0, 0, 0>>, max_bound |-> <<0, 0, 0>>,
              padding |-> 0,
              constraints |-> [max_width |-> 0, max_height |-> 0,
                               max_depth |-> 0, max_volume |-> 0]]
    /\ opt = [pc |-> "idle", padded_min |-> <<0, 0, 0>>,
              padded_max |-> <<0, 0, 0>>,
              dims |-> <<[q |-> <<0, 1>>, r |-> <<1, 1>>],
                         [q |-> <<0, 1>>, r |-> <<1, 1>>],
                         [q |-> <<0, 1>>, r |-> <<1, 1>>]>>,
              log |-> <<>>]

Init == InitLayoutVars /\ InitBoxIdle

\* recommend_text_placement(box_dimensions, text_content) is called
Call ==
    /\ call.pc = "idle"
    /\ \E b \in Boxes, tc \in TextContents(MaxElems) :
           /\ call' = begin_call(default_styles, b, tc)
           /\ default_styles' = styles_after_call(default_styles, tc)
    /\ UNCHANGED <<first, ncalls, box, opt, gen, jobs>>

Group ==
    /\ call.pc = "refine"
    /\ call' = group_elements(call)
    /\ UNCHANGED <<default_styles, first, ncalls, box, opt, gen, jobs>>

NextSurface ==
    /\ call.pc = "surfaces"
    /\ ~size_changed(call)
    /\ ~exhausted(call)
    /\ call' = next_surface(call)
    /\ UNCHANGED <<default_styles, first, ncalls, box, opt, gen, jobs>>

\* RuntimeError: dictionary changed size during iteration; nothing catches it
Raise ==
    /\ call.pc = "surfaces"
    /\ size_changed(call)
    /\ call' = [call EXCEPT !.pc = "raised"]
    /\ UNCHANGED <<default_styles, first, ncalls, box, opt, gen, jobs>>

\* line 981 and line 906: the refined result is returned
Return ==
    /\ call.pc = "surfaces"
    /\ ~size_changed(call)
    /\ exhausted(call)
    /\ call' = [call EXCEPT !.pc = "done"]
    /\ UNCHANGED <<default_styles, first, ncalls, box, opt, gen, jobs>>

StackElement ==
    /\ call.pc = "stack"
    /\ has_next(call)
    /\ call.idx <= Len(call.tc) + MaxExtraIter
    /\ call' = stack_element(call)
    /\ UNCHANGED <<default_styles, first, ncalls, box, opt, gen, jobs>>

EndSurface ==
    /\ call.pc = "stack"
    /\ ~has_next(call)
    /\ call' = [call EXCEPT !.pc = "surfaces"]
    /\ UNCHANGED <<default_styles, first, ncalls, box, opt, gen, jobs>>

Next == Call \/ Group \/ NextSurface \/ Raise \/ Return \/ StackElement \/ EndSurface

Spec == Init /\ [][Next]_vars

----------------------------------------------------------------------------
(* Claims about the text layout engine *)

\* vertical footprint [y - h/2, y + h/2] of element k in call c
Lo(c, k) == RSub(c.result[k].y, RHalf(c.space[k].height))
Hi(c, k) == RAdd(c.result[k].y, RHalf(c.space[k].height))

\* the closed intervals of a and b have no point in common
Disjoint(c, a, b) == RLt(Hi(c, a), Lo(c, b)) \/ RLt(Hi(c, b), Lo(c, a))

\* the element the next iteration of the stacking loop works on
Current(c) == c.ebs[c.surface][c.idx]

\* C1: in a returned layout, two distinct elements assigned to the same
\* surface have disjoint vertical footprints [y - h/2, y + h/2].
C1_NoOverlap ==
    call.pc = "done" =>
        \A a, b \in Keys(call.tc) :
            (a # b /\ call.result[a].placement = call.result[b].placement)
                => Disjoint(call, a, b)

\* C2: the stacking loop of a surface processes finitely many elements: it
\* never goes through more iterations than text_content has elements (each
\* element is stacked at most once per surface), so the call finishes.
C2_LoopFinite ==
    call.pc = "stack" => call.idx <= Len(call.tc) + 1

\* C3: recommend_text_placement never raises.
C3_NeverRaises == call.pc # "raised"

\* an iteration of the stacking loop is taken in this step
StackStep == call.pc = "stack" /\ call'.idx = call.idx + 1

\* the iteration appended its element to the group of the overflow surface
Reassigned ==
    Len(call'.ebs[overflow_surface(call.surface)])
        = Len(call.ebs[overflow_surface(call.surface)]) + 1

\* C4 as stated: an element is reassigned exactly when the stack position at
\* which it starts exceeds H - 20; an element that is not reassigned keeps the
\* original surface.
C4_ReassignedWhenStartExceeds ==
    [][StackStep =>
        LET s == call.surface
            e == Current(call)
            H == surfaces(call.box, s)[2]
        IN  /\ Reassigned <=> RLt(R(H - 20), call.y_position)
            /\ ~Reassigned => call'.result[e].placement = s
      ]_vars

\* C4 as amended: an element is reassigned (to the overflow surface) exactly
\* when the stack position after it - its start plus its height plus the 10
\* unit margin - exceeds H - 20; an element that is not reassigned keeps the
\* original surface.  With H = 100 and three elements of height 50 the first
\* keeps the surface, the second and the third are reassigned.
C4_ReassignedWhenEndExceeds ==
    [][StackStep =>
        LET s == call.surface
            e == Current(call)
            H == surfaces(call.box, s)[2]
            end == RAdd(RAdd(call.y_position, call.space[e].height), R(10))
        IN  /\ Reassigned <=> RLt(R(H - 20), end)
            /\ Reassigned => call'.result[e].placement = overflow_surface(s)
            /\ ~Reassigned => /\ call'.result[e].placement = s
                              /\ call.result[e].placement = s
      ]_vars

\* three elements of height 50 were stacked on the back surface of height
\* 100: the first (warning, by priority) stayed, the other two were reassigned
C4_Witness ==
    /\ call.pc = "done"
    /\ call.box[2] = 100
    /\ {"warning", "description", "foo"} \subseteq Keys(call.tc)
    /\ \A k \in {"warning", "description", "foo"} : call.space[k].height = R(50)
    /\ call.result["warning"].placement = "back"
    /\ call.result["warning"].y = R(45)
    /\ call.result["description"].placement = "bottom"
    /\ call.result["foo"].placement = "bottom"

RecordFields == {"placement", "x", "y", "orientation", "style"}

\* C5: the result holds exactly one placement record per key of
\* text_content - from its initialisation to the moment it is returned - and
\* each record carries a surface, a position (x, y), an orientation and a
\* style.
C5_OneRecordPerKey ==
    call.pc # "idle" =>
        /\ DOMAIN call.result = Keys(call.tc)
        /\ \A k \in DOMAIN call.result :
              /\ DOMAIN call.result[k] = RecordFields
              /\ call.result[k].placement \in Surfaces
              /\ call.result[k].orientation \in {"horizontal", "vertical"}

\* a call returned records for four keys, an unknown key among them, after
\* migrating one of the elements
C5_Witness ==
    /\ call.pc = "done"
    /\ Len(call.tc) = 4
    /\ "foo" \in Keys(call.tc)
    /\ \E k \in Keys(call.tc) : call.result[k].placement # default_placements(k)

----------------------------------------------------------------------------
(* box_generator.py: add_padding and optimize_box_dimensions *)

\* A mesh is given by the axis-aligned bounding box open3d reports for it.
\* calculate_bounding_box, lines 42-49
calculate_bounding_box(mesh) == <<mesh.min_bound, mesh.max_bound>>

\* faulty variant: the padding is subtracted from the maximum corner as well
add_padding_shifts(min_bound, max_bound, padding) ==
    <<[i \in 1..3 |-> min_bound[i] - padding],
      [i \in 1..3 |-> max_bound[i] - padding]>>

\* add_padding, lines 69-75
add_padding(min_bound, max_bound, padding) ==
    <<[i \in 1..3 |-> min_bound[i] - padding],
      [i \in 1..3 |-> max_bound[i] + padding]>>

\* A returned dimension is the real number q * r^(1/3), q and r rational:
\* q is the value after the linear constraints, r the cube of the factor the
\* volume constraint multiplied it by (1 when it did not).
Dim(q) == [q |-> q, r |-> R(1)]

\* the cube of a dimension, an exact rational; x <= y iff x^3 <= y^3
DimCube(d) == RMul(RCube(d.q), d.r)

\* faulty variant: the scale is taken after width was overwritten (scale = 1)
apply_max_width_late_scale(d, max_width) ==
    IF max_width # 0 /\ RLt(R(max_width), d[1])
    THEN <<R(max_width), d[2], d[3]>>
    ELSE d

\* lines 296-301: if max_width and width > max_width
apply_max_width(d, max_width) ==
    IF max_width # 0 /\ RLt(R(max_width), d[1])
    THEN LET scale == RDiv(R(max_width), d[1])
         IN  <<R(max_width), RMul(d[2], scale), RMul(d[3], scale)>>
    ELSE d

\* faulty variant: the other two dimensions are divided by the scale
apply_max_height_inverted(d, max_height) ==
    IF max_height # 0 /\ RLt(R(max_height), d[2])
    THEN LET scale == RDiv(R(max_height), d[2])
         IN  <<RDiv(d[1], scale), R(max_height), RDiv(d[3], scale)>>
    ELSE d

\* lines 303-308: if max_height and height > max_height
apply_max_height(d, max_height) ==
    IF max_height # 0 /\ RLt(R(max_height), d[2])
    THEN LET scale == RDiv(R(max_height), d[2])
         IN  <<RMul(d[1], scale), R(max_height), RMul(d[3], scale)>>
    ELSE d

\* faulty variant: depth is cut to its bound and the other two are left alone
apply_max_depth_clamps(d, max_depth) ==
    IF max_depth # 0 /\ RLt(R(max_depth), d[3])
    THEN <<d[1], d[2], R(max_depth)>>
    ELSE d

\* lines 310-315: if max_depth and depth > max_depth
apply_max_depth(d, max_depth) ==
    IF max_depth # 0 /\ RLt(R(max_depth), d[3])
    THEN LET scale == RDiv(R(max_depth), d[3])
         IN  <<RMul(d[1], scale), RMul(d[2], scale), R(max_depth)>>
    ELSE d

\* faulty variant: depth is left out of the volume scaling
apply_max_volume_skips_depth(d, max_volume) ==
    LET volume == RMul(RMul(d[1], d[2]), d[3])
    IN  IF max_volume # 0 /\ RLt(R(max_volume), volume)
        THEN LET scale3 == RDiv(R(max_volume), volume)
             IN  <<[q |-> d[1], r |-> scale3], [q |-> d[2], r |-> scale3],
                   Dim(d[3])>>
        ELSE <<Dim(d[1]), Dim(d[2]), Dim(d[3])>>

\* faulty variant: the volume is rescaled whenever it is below max_volume as
\* well, a volume of zero included
apply_max_volume_unless_equal(d, max_volume) ==
    LET volume == RMul(RMul(d[1], d[2]), d[3])
    IN  IF max_volume # 0 /\ volume # R(max_volume)
        THEN LET scale3 == RDiv(R(max_volume), volume)
             IN  <<[q |-> d[1], r |-> scale3], [q |-> d[2], r |-> scale3],
                   [q |-> d[3], r |-> scale3]>>
        ELSE <<Dim(d[1]), Dim(d[2]), Dim(d[3])>>

\* lines 318-325: scale = (max_volume / volume) ** (1/3) on all three
apply_max_volume(d, max_volume) ==
    LET volume == RMul(RMul(d[1], d[2]), d[3])
    IN  IF max_volume # 0 /\ RLt(R(max_volume), volume)
        THEN LET scale3 == RDiv(R(max_volume), volume)
             IN  <<[q |-> d[1], r |-> scale3], [q |-> d[2], r |-> scale3],
                   [q |-> d[3], r |-> scale3]>>
        ELSE <<Dim(d[1]), Dim(d[2]), Dim(d[3])>>

\* dimensions = padded_max - padded_min, lines 280-287
padded_dimensions(mesh, padding) ==
    LET bb == calculate_bounding_box(mesh)
        pd == add_padding(bb[1], bb[2], padding)
    IN  [i \in 1..3 |-> R(pd[2][i] - pd[1][i])]

\* optimize_box_dimensions, lines 276-328: (width, height, depth)
optimize_box_dimensions(mesh, padding, constraints) ==
    LET d0 == padded_dimensions(mesh, padding)
        d1 == apply_max_width(d0, constraints.max_width)
        d2 == apply_max_height(d1, constraints.max_height)
        d3 == apply_max_depth(d2, constraints.max_depth)
    IN  apply_max_volume(d3, constraints.max_volume)

\* the message a step logs when its constraint is given and exceeded
logged(name, bound, dim) ==
    IF bound # 0 /\ RLt(R(bound), dim) THEN <<name>> ELSE <<>>

\* faulty variant: the depth constraint is checked before the height constraint
scaling_log_depth_first(mesh, padding, constraints) ==
    LET d0 == padded_dimensions(mesh, padding)
        d1 == apply_max_width(d0, constraints.max_width)
        d2 == apply_max_depth(d1, constraints.max_depth)
        d3 == apply_max_height(d2, constraints.max_height)
    IN  logged("max_width", constraints.max_width, d0[1])
          \o logged("max_depth", constraints.max_depth, d1[3])
          \o logged("max_height", constraints.max_height, d2[2])
          \o logged("max_volume", constraints.max_volume,
                    RMul(RMul(d3[1], d3[2]), d3[3]))

\* the "Scaled dimensions to meet ... constraint" messages of lines 301, 308,
\* 315 and 325, in the order in which the call logs them: one for each step
\* whose condition held on the dimensions as the earlier steps left them
scaling_log(mesh, padding, constraints) ==
    LET d0 == padded_dimensions(mesh, padding)
        d1 == apply_max_width(d0, constraints.max_width)
        d2 == apply_max_height(d1, constraints.max_height)
        d3 == apply_max_depth(d2, constraints.max_depth)
    IN  logged("max_width", constraints.max_width, d0[1])
          \o logged("max_height", constraints.max_height, d1[2])
          \o logged("max_depth", constraints.max_depth, d2[3])
          \o logged("max_volume", constraints.max_volume,
                    RMul(RMul(d3[1], d3[2]), d3[3]))

\* constraints.get(...): 0 stands for an absent (None) constraint
NoConstraints ==
    [max_width |-> 0, max_height |-> 0, max_depth |-> 0, max_volume |-> 0]

Paddings == {-1, 0, 1}
VolumeBounds == {0, 1, 8, 30}

\* the bounding boxes and paddings of tests/core/design/test_box_generator.py
\* and the volume example (100, 100, 100) with max_volume = 125000
NamedInputs ==
    {[min_bound |-> <<10, 20, 30>>, max_bound |-> <<40, 50, 60>>, padding |-> p,
      constraints |-> [NoConstraints EXCEPT !.max_width = w]] :
        p \in {5, 0, -5}, w \in {0, 20}}
    \cup
    {[min_bound |-> <<0, 0, 0>>, max_bound |-> <<80, 80, 80>>, padding |-> 10,
      constraints |-> [NoConstraints EXCEPT !.max_volume = 125000]]}

GridInputs ==
    {[min_bound |-> <<-1, 0, 2>>,
      max_bound |-> <<-1 + e[1], e[2], 2 + e[3]>>,
      padding |-> p,
      constraints |-> [max_width |-> c[1], max_height |-> c[2],
                       max_depth |-> c[3], max_volume |-> v]] :
        e \in [1..3 -> 0..MaxExtent], p \in Paddings,
        c \in [1..3 -> 0..MaxBound], v \in VolumeBounds}

IdleOpt ==
    [pc |-> "idle", padded_min |-> <<0, 0, 0>>, padded_max |-> <<0, 0, 0>>,
     dims |-> <<Dim(R(0)), Dim(R(0)), Dim(R(0))>>, log |-> <<>>]

InitBox ==
    /\ InitLayoutVars
    /\ box \in NamedInputs \cup GridInputs
    /\ opt = IdleOpt

\* add_padding(min_bound, max_bound, padding) is called on the bounding box
AddPadding ==
    /\ opt.pc = "idle"
    /\ LET pd == add_padding(box.min_bound, box.max_bound, box.padding)
       IN  opt' = [opt EXCEPT !.pc = "padded", !.padded_min = pd[1],
                              !.padded_max = pd[2]]
    /\ UNCHANGED <<default_styles, call, first, ncalls, box, gen, jobs>>

\* optimize_box_dimensions(product_mesh, padding, constraints) is called
Optimize ==
    /\ opt.pc = "idle"
    /\ opt' = [opt EXCEPT !.pc = "optimized",
                          !.dims = optimize_box_dimensions(
                                       box, box.padding, box.constraints),
                          !.log = scaling_log(
                                       box, box.padding, box.constraints)]
    /\ UNCHANGED <<default_styles, call, first, ncalls, box, gen, jobs>>

NextBox == AddPadding \/ Optimize

SpecBox == InitBox /\ [][NextBox]_vars

----------------------------------------------------------------------------
(* Claims about add_padding and optimize_box_dimensions *)

\* the padded dimensions D the optimizer starts from
PaddedDims ==
    [i \in 1..3 |-> (box.max_bound[i] - box.min_bound[i]) + 2 * box.padding]

\* all three returned dimensions carry the same volume factor
SameScale(d) == d[1].r = d[2].r /\ d[2].r = d[3].r

\* width * height * depth of dimensions that carry the same volume factor r:
\* q1 * q2 * q3 * r
OutVolume(d) == RMul(RMul(RMul(d[1].q, d[2].q), d[3].q), d[1].r)

Cube(n) == n * n * n

\* C7: the returned dimensions satisfy every given bound at once:
\* width <= max_width, height <= max_height, depth <= max_depth and
\* width * height * depth <= max_volume.
C7_AllBoundsHold ==
    opt.pc = "optimized" =>
        LET c == box.constraints
            d == opt.dims
        IN  /\ c.max_width # 0 => RLe(DimCube(d[1]), R(Cube(c.max_width)))
            /\ c.max_height # 0 => RLe(DimCube(d[2]), R(Cube(c.max_height)))
            /\ c.max_depth # 0 => RLe(DimCube(d[3]), R(Cube(c.max_depth)))
            /\ c.max_volume # 0 =>
                  SameScale(d) /\ RLe(OutVolume(d), R(c.max_volume))

\* all four constraints are given; the width constraint fired first, the
\* depth constraint rescaled the width below its bound, and the volume
\* constraint fired after them
C7_Witness ==
    /\ opt.pc = "optimized"
    /\ \A f \in DOMAIN box.constraints : box.constraints[f] # 0
    /\ PaddedDims[1] > box.constraints.max_width
    /\ RLt(opt.dims[1].q, R(box.constraints.max_width))
    /\ opt.dims[3].q = R(box.constraints.max_depth)
    /\ opt.dims[1].r # R(1)

\* max_width is the only constraint and is exceeded
WidthOnlyCase ==
    /\ opt.pc = "optimized"
    /\ box.constraints.max_width # 0
    /\ box.constraints.max_height = 0
    /\ box.constraints.max_depth = 0
    /\ box.constraints.max_volume = 0
    /\ PaddedDims[1] > box.constraints.max_width

\* C8: with max_width the only constraint and D.width > max_width, the
\* returned width is max_width and the proportions are kept:
\* out.height * D.width = D.height * out.width, and likewise for depth.
C8_WidthOnlyKeepsProportions ==
    WidthOnlyCase =>
        LET d == opt.dims
            D == PaddedDims
        IN  /\ d[1] = Dim(R(box.constraints.max_width))
            /\ d[2].r = R(1) /\ d[3].r = R(1)
            /\ RMul(d[2].q, R(D[1])) = RMul(R(D[2]), d[1].q)
            /\ RMul(d[3].q, R(D[1])) = RMul(R(D[3]), d[1].q)

\* the case of C8 on a box whose three padded dimensions differ
C8_Witness ==
    /\ WidthOnlyCase
    /\ PaddedDims[2] # PaddedDims[1]
    /\ PaddedDims[3] # PaddedDims[2]
    /\ PaddedDims[2] > 0 /\ PaddedDims[3] > 0

\* C9: when max_volume is given and the volume V after the linear
\* constraints exceeds it, all three dimensions are multiplied by the one
\* factor (max_volume / V)^(1/3), so the returned volume is max_volume;
\* (100, 100, 100) with max_volume 125000 gives (50, 50, 50); when V does not
\* exceed max_volume the dimensions stay as the linear constraints left them.
C9_VolumeScaling ==
    (opt.pc = "optimized" /\ box.constraints.max_volume # 0) =>
        LET c == box.constraints
            d == opt.dims
            V == RMul(RMul(d[1].q, d[2].q), d[3].q)
            linear == c.max_width # 0 \/ c.max_height # 0 \/ c.max_depth # 0
        IN  /\ RLt(R(c.max_volume), V) =>
                  /\ \A i \in 1..3 : d[i].r = RDiv(R(c.max_volume), V)
                  /\ OutVolume(d) = R(c.max_volume)
            /\ ~RLt(R(c.max_volume), V) => \A i \in 1..3 : d[i].r = R(1)
            /\ ~linear => \A i \in 1..3 : d[i].q = R(PaddedDims[i])
            /\ (PaddedDims = <<100, 100, 100>> /\ c.max_volume = 125000 /\ ~linear)
                  => \A i \in 1..3 : DimCube(d[i]) = R(Cube(50))

\* the volume constraint fired after the width constraint had fired
C9_Witness ==
    /\ opt.pc = "optimized"
    /\ box.constraints.max_volume # 0
    /\ box.constraints.max_width # 0
    /\ PaddedDims[1] > box.constraints.max_width
    /\ opt.dims[1].r # R(1)
    /\ OutVolume(opt.dims) = R(box.constraints.max_volume)

\* C10: add_padding returns (min - p, max + p) componentwise for positive,
\* zero and negative p: the padded dimensions are the original dimensions
\* + 2p on every axis, zero padding returns the box unchanged, and a negative
\* padding shrinks the box.
C10_PaddingOnBothSides ==
    opt.pc = "padded" =>
        /\ \A i \in 1..3 :
              /\ opt.padded_min[i] = box.min_bound[i] - box.padding
              /\ opt.padded_max[i] = box.max_bound[i] + box.padding
              /\ opt.padded_max[i] - opt.padded_min[i]
                    = (box.max_bound[i] - box.min_bound[i]) + 2 * box.padding
        /\ box.padding = 0 =>
              opt.padded_min = box.min_bound /\ opt.padded_max = box.max_bound

\* test_add_padding_negative: padding -5 shrinks (10,20,30)-(40,50,60)
C10_Witness ==
    /\ opt.pc = "padded"
    /\ box.padding = -5
    /\ opt.padded_min = <<15, 25, 35>>
    /\ opt.padded_max = <<35, 45, 55>>

----------------------------------------------------------------------------
(* Consecutive calls on one engine *)

RepeatBoxes == {<<260, 100, 400>>, <<100, 300, 200>>}

RepeatKeySeqs ==
    {<<>>, <<"description">>, <<"description", "foo">>,
     <<"barcode", "description", "warning", "foo">>,
     <<"product_name", "brand", "description">>,
     <<"barcode", "recycling">>, <<"product_name", "brand">>}

RepeatContents ==
    {[i \in DOMAIN ks |-> [key |-> ks[i], content |-> ContentOf(p, ks[i])]] :
        ks \in RepeatKeySeqs, p \in Profiles}

\* the engine is called again once the previous call has ended
RepeatCall ==
    /\ call.pc \in {"idle", "done", "raised"}
    /\ ncalls < MaxCalls
    /\ \E b \in RepeatBoxes, tc \in RepeatContents :
           /\ call' = begin_call(default_styles, b, tc)
           /\ default_styles' = styles_after_call(default_styles, tc)
           /\ first' =
                 IF first.set
                 THEN [first EXCEPT !.between =
                           @ \/ b # first.box \/ tc # first.tc]
                 ELSE IF call.pc = "done"
                      THEN [set |-> TRUE, box |-> call.box, tc |-> call.tc,
                            result |-> call.result, styles |-> default_styles,
                            between |-> b # call.box \/ tc # call.tc]
                      ELSE first
    /\ ncalls' = ncalls + 1
    /\ UNCHANGED <<box, opt, gen, jobs>>

NextRepeat ==
    RepeatCall \/ Group \/ NextSurface \/ Raise \/ Return \/ StackElement
        \/ EndSurface

SpecRepeat == Init /\ [][NextRepeat]_vars

\* the call in progress has the arguments of the first call that returned
SameArguments == first.set /\ call.box = first.box /\ call.tc = first.tc

\* C6: two calls on the same engine with identical (box_dimensions,
\* text_content) return identical placement records - surface, position,
\* orientation and style of every element - whatever calls were made in
\* between.
C6_SameInputSameRecords ==
    (call.pc = "done" /\ SameArguments) =>
        /\ call.result = first.result
        /\ default_styles = first.styles

\* a layout with a migrated element was returned a second time, after a call
\* with other arguments
C6_Witness ==
    /\ call.pc = "done"
    /\ SameArguments
    /\ first.between
    /\ \E k \in Keys(call.tc) : call.result[k].placement # default_placements(k)
    /\ \E k \in Keys(call.tc) : call.result[k].style.alias = "default_styles"

----------------------------------------------------------------------------
(* The solid-geometry provider as the generators use it (open3d, trimesh) *)

\* vectors of three exact rationals
RVec(v) == [i \in 1..3 |-> R(v[i])]
VAdd(a, b) == [i \in 1..3 |-> RAdd(a[i], b[i])]
VSub(a, b) == [i \in 1..3 |-> RSub(a[i], b[i])]
VNeg(a) == [i \in 1..3 |-> RSub(R(0), a[i])]
VZero == RVec(<<0, 0, 0>>)

RMin(a, b) == IF RLe(a, b) THEN a ELSE b
RMax(a, b) == IF RLe(a, b) THEN b ELSE a

\* A mesh a caller passes: its vertices, a sequence of points with rational
\* coordinates; NotAMesh is an argument that is no mesh at all (None).
Mesh(vs) == [kind |-> "mesh", vertices |-> vs]
NotAMesh == [kind |-> "none"]

RECURSIVE MinOver(_, _)
MinOver(vs, i) ==
    IF Len(vs) = 1 THEN vs[1][i] ELSE RMin(vs[1][i], MinOver(Tail(vs), i))

RECURSIVE MaxOver(_, _)
MaxOver(vs, i) ==
    IF Len(vs) = 1 THEN vs[1][i] ELSE RMax(vs[1][i], MaxOver(Tail(vs), i))

RECURSIVE SumOver(_, _)
SumOver(vs, i) ==
    IF vs = <<>> THEN R(0) ELSE RAdd(vs[1][i], SumOver(Tail(vs), i))

\* mesh.get_axis_aligned_bounding_box(): the componentwise minimum and maximum
\* of the vertices; both corners are (0, 0, 0) for a mesh with no vertex
get_axis_aligned_bounding_box(mesh) ==
    IF mesh.vertices = <<>>
    THEN [min_bound |-> VZero, max_bound |-> VZero]
    ELSE [min_bound |-> [i \in 1..3 |-> MinOver(mesh.vertices, i)],
          max_bound |-> [i \in 1..3 |-> MaxOver(mesh.vertices, i)]]

\* mesh.get_center(): the mean of the vertices; (0, 0, 0) with no vertex
get_center(mesh) ==
    IF mesh.vertices = <<>> THEN VZero
    ELSE [i \in 1..3 |->
             RDiv(SumOver(mesh.vertices, i), R(Len(mesh.vertices)))]

\* mesh.scale(scale_factor, center): every vertex v becomes
\* center + scale_factor * (v - center)
scale(mesh, scale_factor, center) ==
    Mesh([j \in DOMAIN mesh.vertices |->
             [i \in 1..3 |->
                 RAdd(center[i],
                      RMul(scale_factor, RSub(mesh.vertices[j][i], center[i])))]])

\* TriangleMesh.create_box(width, height, depth): the box with one corner at
\* the origin; it is an error to ask for a size that is not positive
create_box_fails(size) == \E i \in 1..3 : RLe(size[i], R(0))
create_box(size) == [kind |-> "box", min_bound |-> VZero, max_bound |-> size]

\* solid.translate(t) for a box, and for the difference of two solids
translate_box(b, t) ==
    [b EXCEPT !.min_bound = VAdd(@, t), !.max_bound = VAdd(@, t)]

\* outer.difference(inner): the solid outer with the volume of inner removed
difference(outer, inner) ==
    [kind |-> "difference", outer |-> outer, inner |-> inner]

translate_difference(d, t) ==
    [d EXCEPT !.outer = translate_box(@, t), !.inner = translate_box(@, t)]

\* what the boolean backend of the provider does when difference is called
Providers == {"subtracts", "fails"}

----------------------------------------------------------------------------
(* Outcomes of a generator call *)

\* a call returns a value or raises; trace lists the solid operations of the
\* provider the call invoked, chain the errors from the outermost handler that
\* re-raised down to the original cause
NoValue == [kind |-> "none"]

Returned(value, trace) ==
    [raised |-> FALSE, error |-> "none", chain |-> <<>>, value |-> value,
     trace |-> trace]

Raised(error, trace) ==
    [raised |-> TRUE, error |-> error, chain |-> <<error>>, value |-> NoValue,
     trace |-> trace]

\* except Exception as e: raise error(f"...: {str(e)}")
reraise_as(outcome, error) ==
    IF outcome.raised
    THEN [outcome EXCEPT !.error = error, !.chain = <<error>> \o @]
    ELSE outcome

----------------------------------------------------------------------------
(* box_generator.py: the box generators *)

\* BoxType, lines 15-21
BoxType == {"STANDARD", "SLEEVE", "CLAMSHELL", "TRAY", "CUSTOM"}

\* values a caller can pass as box_type that are no BoxType member: a member
\* of another Enum (core/intelligence/design_automation.py has its own
\* BoxType), which has a .value, and a plain string, which has none
ForeignEnumMember == "design_automation.BoxType.MAILER_BOX"
PlainString == "'sleeve'"
BoxTypeArguments == BoxType \cup {ForeignEnumMember, PlainString}

\* calculate_bounding_box as called, lines 40-53: the outcome of the call
calculate_bounding_box_call(product_mesh) ==
    IF product_mesh.kind # "mesh"
    THEN reraise_as(Raised("AttributeError", <<>>), "BoxGeneratorError")
    ELSE LET aabb == get_axis_aligned_bounding_box(product_mesh)
             bb   == calculate_bounding_box(aabb)
         IN  Returned([kind |-> "bounds", min_bound |-> bb[1],
                       max_bound |-> bb[2]], <<>>)

\* faulty variant: the inner box is left at the corner of the outer box
inner_box_untranslated(wall_thickness) ==
    [i \in 1..3 |-> R(0)]

\* line 164: the translation of the inner box
inner_box_translation(wall_thickness) ==
    [i \in 1..3 |-> wall_thickness]

\* line 187-188: the translation of the hollow box
hollow_box_translation(min_bound, max_bound) ==
    VNeg([i \in 1..3 |-> RHalf(RAdd(min_bound[i], max_bound[i]))])

\* lines 150-154: the size of the outer box
outer_box_size(dimensions, wall_thickness) ==
    [i \in 1..3 |-> RAdd(dimensions[i], RMul(R(2), wall_thickness))]

\* generate_standard_box, lines 144-198
generate_standard_box(min_bound, max_bound, wall_thickness, provider) ==
    LET dimensions == VSub(max_bound, min_bound)
        outer_size == outer_box_size(dimensions, wall_thickness)
        outer_box  == create_box(outer_size)
        inner_box  == translate_box(create_box(dimensions),
                                    inner_box_translation(wall_thickness))
        hollow_box == translate_difference(
                          difference(outer_box, inner_box),
                          hollow_box_translation(min_bound, max_bound))
        body ==
            IF create_box_fails(outer_size)
            THEN Raised("RuntimeError", <<"create_box">>)
            ELSE IF create_box_fails(dimensions)
            THEN Raised("RuntimeError", <<"create_box", "create_box">>)
            ELSE IF provider = "fails"
            THEN Raised("BooleanBackendError",
                        <<"create_box", "create_box", "translate",
                          "difference">>)
            ELSE Returned(hollow_box,
                          <<"create_box", "create_box", "translate",
                            "difference", "translate">>)
    IN  reraise_as(body, "BoxGeneratorError")

\* faulty variant: the placeholder refuses instead of delegating
generate_sleeve_box_unimplemented(min_bound, max_bound, wall_thickness, provider) ==
    Raised("NotImplementedError", <<>>)

\* lines 201-256: the placeholders
generate_sleeve_box(min_bound, max_bound, wall_thickness, provider) ==
    generate_standard_box(min_bound, max_bound, wall_thickness, provider)

generate_clamshell_box(min_bound, max_bound, wall_thickness, provider) ==
    generate_standard_box(min_bound, max_bound, wall_thickness, provider)

generate_tray_box(min_bound, max_bound, wall_thickness, provider) ==
    generate_standard_box(min_bound, max_bound, wall_thickness, provider)

\* lines 106-120: the dispatch on box_type
dispatch_box(box_type, padded_min, padded_max, wall_thickness, provider) ==
    CASE box_type = "STANDARD" ->
             generate_standard_box(padded_min, padded_max, wall_thickness, provider)
      [] box_type = "SLEEVE" ->
             generate_sleeve_box(padded_min, padded_max, wall_thickness, provider)
      [] box_type = "CLAMSHELL" ->
             generate_clamshell_box(padded_min, padded_max, wall_thickness, provider)
      [] box_type = "TRAY" ->
             generate_tray_box(padded_min, padded_max, wall_thickness, provider)
      [] box_type = "CUSTOM" ->
             generate_standard_box(padded_min, padded_max, wall_thickness, provider)
      [] OTHER ->
             generate_standard_box(padded_min, padded_max, wall_thickness, provider)

\* add_padding on rational bounds: add_padding of lines 69-70 applied to the
\* numerators and denominators the arrays hold
add_padding_bounds(min_bound, max_bound, padding) ==
    <<[i \in 1..3 |-> RSub(min_bound[i], padding)],
      [i \in 1..3 |-> RAdd(max_bound[i], padding)]>>

\* generate_box, lines 93-127
generate_box(product_mesh, box_type, padding, wall_thickness, provider) ==
    IF box_type = PlainString
    THEN \* line 93, outside the try: box_type.value
         Raised("AttributeError", <<>>)
    ELSE LET bb == calculate_bounding_box_call(product_mesh)
             pd == add_padding_bounds(bb.value.min_bound, bb.value.max_bound,
                                      padding)
             body ==
                 IF bb.raised THEN bb
                 ELSE dispatch_box(box_type, pd[1], pd[2], wall_thickness,
                                   provider)
         IN  reraise_as(body, "BoxGeneratorError")

\* the integer corners of a bounding box whose corners are whole numbers, as
\* the record optimize_box_dimensions reads
WholeBounds(aabb) ==
    [min_bound |-> [i \in 1..3 |-> aabb.min_bound[i][1]],
     max_bound |-> [i \in 1..3 |-> aabb.max_bound[i][1]]]

\* a constraints argument that is no dict (constraints.get raises)
NotADict == [kind |-> "list"]

\* optimize_box_dimensions as called, lines 274-332: the outcome of the call
optimize_box_dimensions_call(product_mesh, padding, constraints) ==
    LET bb == calculate_bounding_box_call(product_mesh)
        body ==
            IF bb.raised THEN bb
            ELSE IF constraints = NotADict
            THEN Raised("AttributeError", <<>>)
            ELSE Returned(
                     [kind |-> "dimensions",
                      dims |-> optimize_box_dimensions(
                                   WholeBounds(bb.value), padding, constraints)],
                     <<>>)
    IN  reraise_as(body, "BoxGeneratorError")

----------------------------------------------------------------------------
(* internal_structure.py: the holder generators *)

\* min(bbox_dimensions)
min_dimension(dims) == RMin(dims[1], RMin(dims[2], dims[3]))

\* line 82: scale_factor = 1.0 + (padding * 2 / min(bbox_dimensions))
scale_factor(padding, dims) ==
    RAdd(R(1), RDiv(RMul(padding, R(2)), min_dimension(dims)))

\* lines 73-85: the padded product.  A mesh with no vertex has dimensions
\* (0, 0, 0): the division then yields inf or nan without raising, and scaling
\* no vertex leaves the mesh as it is.
padded_product(product_mesh, padding) ==
    LET center == get_center(product_mesh)
        bbox   == get_axis_aligned_bounding_box(product_mesh)
        dims   == VSub(bbox.max_bound, bbox.min_bound)
    IN  IF product_mesh.vertices = <<>> THEN product_mesh
        ELSE scale(product_mesh, scale_factor(padding, dims), center)

\* lines 88-104: the block under and around the padded product
block_size(padded, base_thickness) ==
    LET bbox == get_axis_aligned_bounding_box(padded)
        d    == VSub(bbox.max_bound, bbox.min_bound)
    IN  <<d[1], RAdd(d[2], base_thickness), d[3]>>

block_translation(padded, base_thickness) ==
    LET bbox == get_axis_aligned_bounding_box(padded)
    IN  <<bbox.min_bound[1], RSub(bbox.min_bound[2], base_thickness),
          bbox.min_bound[3]>>

\* generate_negative_holder, lines 70-133
generate_negative_holder(product_mesh, padding, base_thickness, provider) ==
    LET padded == padded_product(product_mesh, padding)
        size   == block_size(padded, base_thickness)
        block  == translate_box(create_box(size),
                                block_translation(padded, base_thickness))
        body ==
            IF product_mesh.kind # "mesh"
            THEN Raised("AttributeError", <<>>)
            ELSE IF create_box_fails(size)
            THEN Raised("RuntimeError", <<"scale", "create_box">>)
            ELSE IF provider = "fails"
            THEN Raised("BooleanBackendError",
                        <<"scale", "create_box", "translate", "difference">>)
            ELSE Returned(difference(block, padded),
                          <<"scale", "create_box", "translate", "difference">>)
    IN  reraise_as(body, "HolderGenerationError")

\* lines 136-173: the placeholders
generate_cradle_holder(product_mesh, padding, base_thickness, provider) ==
    generate_negative_holder(product_mesh, padding, base_thickness, provider)

generate_clip_holder(product_mesh, padding, base_thickness, provider) ==
    generate_negative_holder(product_mesh, padding, base_thickness, provider)

\* generate_holder_structure, lines 36-49
generate_holder_structure(product_mesh, holder_type, padding, base_thickness, provider) ==
    LET body ==
            CASE holder_type = "negative" ->
                     generate_negative_holder(product_mesh, padding,
                                              base_thickness, provider)
              [] holder_type = "cradle" ->
                     generate_cradle_holder(product_mesh, padding,
                                            base_thickness, provider)
              [] holder_type = "clip" ->
                     generate_clip_holder(product_mesh, padding,
                                          base_thickness, provider)
              [] OTHER ->
                     generate_negative_holder(product_mesh, padding,
                                              base_thickness, provider)
    IN  reraise_as(body, "HolderGenerationError")

----------------------------------------------------------------------------
(* Inputs of the generators *)

\* the eight corners of the box with corner m and extents e
Cuboid(m, e) ==
    Mesh(<<RVec(<<m[1], m[2], m[3]>>),
           RVec(<<m[1] + e[1], m[2], m[3]>>),
           RVec(<<m[1], m[2] + e[2], m[3]>>),
           RVec(<<m[1], m[2], m[3] + e[3]>>),
           RVec(<<m[1] + e[1], m[2] + e[2], m[3]>>),
           RVec(<<m[1] + e[1], m[2], m[3] + e[3]>>),
           RVec(<<m[1], m[2] + e[2], m[3] + e[3]>>),
           RVec(<<m[1] + e[1], m[2] + e[2], m[3] + e[3]>>)>>)

\* the four corners of the tetrahedron with its right angle at m
Tetrahedron(m, e) ==
    Mesh(<<RVec(<<m[1], m[2], m[3]>>),
           RVec(<<m[1] + e[1], m[2], m[3]>>),
           RVec(<<m[1], m[2] + e[2], m[3]>>),
           RVec(<<m[1], m[2], m[3] + e[3]>>)>>)

MeshOrigins == {<<0, 0, 0>>, <<-1, 0, 2>>}

\* products with positive extents on every axis
SolidMeshes ==
    {Cuboid(m, e) : m \in MeshOrigins, e \in [1..3 -> 1..MaxMeshExtent]}
    \cup {Tetrahedron(m, e) : m \in MeshOrigins, e \in [1..3 -> 1..MaxMeshExtent]}
    \cup {Cuboid(<<0, 0, 0>>, <<100, 80, 60>>)}

\* a mesh with zero vertices
EmptyMesh == Mesh(<<>>)

ProductMeshes == SolidMeshes \cup {EmptyMesh, NotAMesh}

\* (min_bound, max_bound) pairs handed to generate_standard_box directly
BoundsInputs ==
    {<<RVec(m), RVec(<<m[1] + e[1], m[2] + e[2], m[3] + e[3]>>)>> :
        m \in MeshOrigins, e \in [1..3 -> 0..MaxMeshExtent]}
    \cup {<<RVec(<<0, 0, 0>>), RVec(<<100, 80, 60>>)>>}

WallThicknesses == {R(0), R(1), <<5, 2>>, R(5)}
GenPaddings == {R(p) : p \in Paddings}
BaseThicknesses == {R(0), R(5)}
HolderTypes == {"negative", "cradle", "clip", "unknown"}

ConstraintArguments ==
    {NoConstraints, [NoConstraints EXCEPT !.max_width = 2], NotADict}

----------------------------------------------------------------------------
(* The generators as a state machine: one call, then, for a dispatching
   generator, the same call with the implemented variant *)

Ended(op, args, out) ==
    [pc |-> "ended", op |-> op, args |-> args, out |-> out, ref |-> NoValue]

CalculateBoundingBox ==
    /\ gen.pc = "idle"
    /\ \E m \in ProductMeshes :
          gen' = Ended("calculate_bounding_box", [product_mesh |-> m],
                       calculate_bounding_box_call(m))
    /\ UNCHANGED <<default_styles, call, first, ncalls, box, opt, jobs>>

GenerateStandardBox ==
    /\ gen.pc = "idle"
    /\ \E b \in BoundsInputs, t \in WallThicknesses, p \in Providers :
          gen' = Ended("generate_standard_box",
                       [min_bound |-> b[1], max_bound |-> b[2],
                        wall_thickness |-> t, provider |-> p],
                       generate_standard_box(b[1], b[2], t, p))
    /\ UNCHANGED <<default_styles, call, first, ncalls, box, opt, jobs>>

GenerateBox ==
    /\ gen.pc = "idle"
    /\ \E m \in ProductMeshes, bt \in BoxTypeArguments, pad \in GenPaddings,
          t \in WallThicknesses, p \in Providers :
          gen' = Ended("generate_box",
                       [product_mesh |-> m, box_type |-> bt, padding |-> pad,
                        wall_thickness |-> t, provider |-> p],
                       generate_box(m, bt, pad, t, p))
    /\ UNCHANGED <<default_styles, call, first, ncalls, box, opt, jobs>>

\* the same arguments with box_type = BoxType.STANDARD
GenerateBoxStandard ==
    /\ gen.pc = "ended"
    /\ gen.op = "generate_box"
    /\ gen' = [gen EXCEPT !.pc = "compared",
                          !.ref = generate_box(
                                      gen.args.product_mesh, "STANDARD",
                                      gen.args.padding,
                                      gen.args.wall_thickness,
                                      gen.args.provider)]
    /\ UNCHANGED <<default_styles, call, first, ncalls, box, opt, jobs>>

OptimizeBoxDimensions ==
    /\ gen.pc = "idle"
    /\ \E m \in ProductMeshes, pad \in Paddings, c \in ConstraintArguments :
          gen' = Ended("optimize_box_dimensions",
                       [product_mesh |-> m, padding |-> pad,
                        constraints |-> c],
                       optimize_box_dimensions_call(m, pad, c))
    /\ UNCHANGED <<default_styles, call, first, ncalls, box, opt, jobs>>

GenerateNegativeHolder ==
    /\ gen.pc = "idle"
    /\ \E m \in ProductMeshes, pad \in GenPaddings, bt \in BaseThicknesses,
          p \in Providers :
          gen' = Ended("generate_negative_holder",
                       [product_mesh |-> m, padding |-> pad,
                        base_thickness |-> bt, provider |-> p],
                       generate_negative_holder(m, pad, bt, p))
    /\ UNCHANGED <<default_styles, call, first, ncalls, box, opt, jobs>>

GenerateHolderStructure ==
    /\ gen.pc = "idle"
    /\ \E m \in ProductMeshes, ht \in HolderTypes, pad \in GenPaddings,
          bt \in BaseThicknesses, p \in Providers :
          gen' = Ended("generate_holder_structure",
                       [product_mesh |-> m, holder_type |-> ht,
                        padding |-> pad, base_thickness |-> bt,
                        provider |-> p],
                       generate_holder_structure(m, ht, pad, bt, p))
    /\ UNCHANGED <<default_styles, call, first, ncalls, box, opt, jobs>>

\* the same arguments with holder_type = "negative"
GenerateHolderNegative ==
    /\ gen.pc = "ended"
    /\ gen.op = "generate_holder_structure"
    /\ gen' = [gen EXCEPT !.pc = "compared",
                          !.ref = generate_holder_structure(
                                      gen.args.product_mesh, "negative",
                                      gen.args.padding,
                                      gen.args.base_thickness,
                                      gen.args.provider)]
    /\ UNCHANGED <<default_styles, call, first, ncalls, box, opt, jobs>>

NextGen ==
    \/ CalculateBoundingBox
    \/ GenerateStandardBox
    \/ GenerateBox
    \/ GenerateBoxStandard
    \/ OptimizeBoxDimensions
    \/ GenerateNegativeHolder
    \/ GenerateHolderStructure
    \/ GenerateHolderNegative

SpecGen == Init /\ [][NextGen]_vars

----------------------------------------------------------------------------
(* Claims about the box and holder generators *)

\* a call of op has ended (returned or raised)
EndedCall(op) == gen.pc # "idle" /\ gen.op = op

\* the midpoint of a box
BoxCenter(b) == [i \in 1..3 |-> RHalf(RAdd(b.min_bound[i], b.max_bound[i]))]

\* the size of a box
BoxSize(b) == VSub(b.max_bound, b.min_bound)

\* the dimensions generate_standard_box was requested to enclose
RequestedDims == VSub(gen.args.max_bound, gen.args.min_bound)

PositiveVec(v) == \A i \in 1..3 : RLt(R(0), v[i])

\* C11: for requested dimensions d and wall thickness t > 0,
\* generate_standard_box builds an outer solid of size d + 2t and a cavity of
\* size exactly d, the wall being exactly t thick on each of the six sides; it
\* builds them whenever d is positive and the subtraction succeeds; for
\* d = (100, 80, 60), t = 5 the cavity is (100, 80, 60) and the outer
\* envelope (110, 90, 70).
C11_WallsExactlyT ==
    (EndedCall("generate_standard_box") /\ RLt(R(0), gen.args.wall_thickness)) =>
        LET t     == gen.args.wall_thickness
            d     == RequestedDims
            shell == gen.out.value
        IN  /\ (PositiveVec(d) /\ gen.args.provider = "subtracts")
                  => ~gen.out.raised
            /\ ~gen.out.raised =>
                  /\ shell.kind = "difference"
                  /\ BoxSize(shell.inner) = d
                  /\ \A i \in 1..3 :
                        /\ BoxSize(shell.outer)[i] = RAdd(d[i], RMul(R(2), t))
                        /\ RSub(shell.inner.min_bound[i],
                                shell.outer.min_bound[i]) = t
                        /\ RSub(shell.outer.max_bound[i],
                                shell.inner.max_bound[i]) = t
                  /\ (d = RVec(<<100, 80, 60>>) /\ t = R(5)) =>
                        BoxSize(shell.outer) = RVec(<<110, 90, 70>>)

\* the shell for (100, 80, 60) with walls of 5 was built
C11_Witness ==
    /\ EndedCall("generate_standard_box")
    /\ ~gen.out.raised
    /\ RequestedDims = RVec(<<100, 80, 60>>)
    /\ gen.args.wall_thickness = R(5)
    /\ BoxSize(gen.out.value.inner) = RVec(<<100, 80, 60>>)
    /\ BoxSize(gen.out.value.outer) = RVec(<<110, 90, 70>>)

\* C12: after generate_standard_box recenters the shell, the center of the
\* outer envelope and of the cavity is the center (min_bound + max_bound) / 2
\* of the bounding box it was generated for, on every axis.
C12_ShellCenteredOnBoundingBox ==
    (EndedCall("generate_standard_box") /\ ~gen.out.raised) =>
        LET center == [i \in 1..3 |->
                          RHalf(RAdd(gen.args.min_bound[i],
                                     gen.args.max_bound[i]))]
        IN  /\ BoxCenter(gen.out.value.outer) = center
            /\ BoxCenter(gen.out.value.inner) = center

\* C13: requesting an unimplemented variant gives exactly the outcome of the
\* implemented one for the same inputs - the same mesh, or the same error:
\* generate_box with SLEEVE, CLAMSHELL, TRAY or CUSTOM against STANDARD,
\* generate_holder_structure with "cradle", "clip" or an unknown type string
\* against "negative".
C13_FallbackEqualsImplemented ==
    gen.pc = "compared" =>
        /\ (gen.op = "generate_box" /\ gen.args.box_type \in BoxType)
              => gen.out = gen.ref
        /\ gen.op = "generate_holder_structure" => gen.out = gen.ref

\* a sleeve box was generated and compared with the standard box
C13_Witness ==
    /\ gen.pc = "compared"
    /\ gen.op = "generate_box"
    /\ gen.args.box_type = "SLEEVE"
    /\ ~gen.out.raised
    /\ gen.out.value.kind = "difference"
    /\ ~gen.ref.raised

\* the product of a holder call has positive extents
ProductBox == get_axis_aligned_bounding_box(gen.args.product_mesh)

\* C14: in generate_negative_holder, for a product with positive extents and
\* padding >= 0, the padded product's bounding box lies at least `padding`
\* beyond the product's bounding box on both sides of the smallest axis, and
\* its extent on every axis i is extent_i * s >= extent_i + 2 * padding.
C14_PaddingOnSmallestAxis ==
    (/\ EndedCall("generate_negative_holder")
     /\ ~gen.out.raised
     /\ gen.args.product_mesh \in SolidMeshes
     /\ RLe(R(0), gen.args.padding)) =>
        LET p      == gen.args.padding
            orig   == ProductBox
            extent == VSub(orig.max_bound, orig.min_bound)
            s      == scale_factor(p, extent)
            padded == get_axis_aligned_bounding_box(gen.out.value.inner)
        IN  \A i \in 1..3 :
               /\ RSub(padded.max_bound[i], padded.min_bound[i])
                     = RMul(extent[i], s)
               /\ RLe(RAdd(extent[i], RMul(R(2), p)), RMul(extent[i], s))
               /\ extent[i] = min_dimension(extent) =>
                     /\ RLe(padded.min_bound[i], RSub(orig.min_bound[i], p))
                     /\ RLe(RAdd(orig.max_bound[i], p), padded.max_bound[i])

BoxOperations ==
    {"calculate_bounding_box", "generate_standard_box", "generate_box",
     "optimize_box_dimensions"}

HolderOperations == {"generate_holder_structure", "generate_negative_holder"}

\* C15: every failure inside the generators reaches the caller as the
\* component's own error type: BoxGeneratorError from calculate_bounding_box,
\* generate_standard_box, generate_box and optimize_box_dimensions,
\* HolderGenerationError from generate_holder_structure and
\* generate_negative_holder.
C15_OwnErrorTypeOnly ==
    (gen.pc # "idle" /\ gen.out.raised) =>
        /\ gen.op \in BoxOperations => gen.out.error = "BoxGeneratorError"
        /\ gen.op \in HolderOperations =>
              gen.out.error = "HolderGenerationError"

\* the call was given a mesh with zero vertices, or bounds whose dimensions
\* (after padding) are not all positive
InvalidInput ==
    \/ /\ gen.op \in {"calculate_bounding_box", "generate_box",
                      "generate_holder_structure"}
       /\ gen.args.product_mesh = EmptyMesh
    \/ /\ gen.op = "generate_box"
       /\ gen.args.product_mesh \in SolidMeshes
       /\ LET bb == get_axis_aligned_bounding_box(gen.args.product_mesh)
          IN  ~PositiveVec([i \in 1..3 |->
                  RAdd(RSub(bb.max_bound[i], bb.min_bound[i]),
                       RMul(R(2), gen.args.padding))])

\* C16: invalid inputs are rejected before any solid operation: with a mesh of
\* zero vertices or non-positive box dimensions the call raises its error and
\* the boolean subtraction is never invoked.
C16_RejectedBeforeSolidOperations ==
    (gen.pc # "idle" /\ InvalidInput) =>
        /\ gen.out.raised
        /\ \A i \in DOMAIN gen.out.trace : gen.out.trace[i] # "difference"

----------------------------------------------------------------------------
(* Two workers calling recommend_text_placement on one engine, their steps
   interleaved in any order *)

\* the stacking loop is followed no further (the bound of the model)
cut_off(c) == c.idx > Len(c.tc) + MaxExtraIter

\* the call has ended, or the model follows it no further
at_rest(c) ==
    \/ c.pc \in {"done", "raised"}
    \/ c.pc = "stack" /\ has_next(c) /\ cut_off(c)

\* one step of a call in progress, lines 924-981
step(c) ==
    CASE c.pc = "refine" -> group_elements(c)
      [] c.pc = "surfaces" /\ size_changed(c) -> [c EXCEPT !.pc = "raised"]
      [] c.pc = "surfaces" /\ ~size_changed(c) /\ exhausted(c) ->
             [c EXCEPT !.pc = "done"]
      [] c.pc = "surfaces" /\ ~size_changed(c) /\ ~exhausted(c) ->
             next_surface(c)
      [] c.pc = "stack" /\ has_next(c) -> stack_element(c)
      [] c.pc = "stack" /\ ~has_next(c) -> [c EXCEPT !.pc = "surfaces"]

\* the call run to its end with no other call on the engine
RECURSIVE run_alone(_)
run_alone(c) == IF at_rest(c) THEN c ELSE run_alone(step(c))

\* the arguments the workers call with
JobBoxes == RepeatBoxes
JobContents == RepeatContents

\* worker w calls recommend_text_placement(box_dimensions, text_content)
WorkerCall(w) ==
    /\ jobs[w].pc = "idle"
    /\ \E b \in JobBoxes, tc \in JobContents :
          /\ jobs' = [jobs EXCEPT ![w] = begin_call(default_styles, b, tc)]
          /\ default_styles' = styles_after_call(default_styles, tc)
    /\ UNCHANGED <<call, first, ncalls, box, opt, gen>>

\* worker w takes the next step of its call
WorkerStep(w) ==
    /\ jobs[w].pc # "idle"
    /\ ~at_rest(jobs[w])
    /\ jobs' = [jobs EXCEPT ![w] = step(jobs[w])]
    /\ UNCHANGED <<default_styles, call, first, ncalls, box, opt, gen>>

NextWorkers == \E w \in 1..2 : WorkerCall(w) \/ WorkerStep(w)

SpecWorkers == Init /\ [][NextWorkers]_vars

\* what the call of worker w gives when run alone on a fresh engine
Alone(w) ==
    run_alone(begin_call(InitialDefaultStyles, jobs[w].box, jobs[w].tc))

\* C17: two recommend_text_placement calls on one engine, interleaved step by
\* step in any order, do not interfere: each ends as it ends when run alone -
\* it returns the same records, or raises, or keeps looping, as it does alone.
C17_CallsDoNotInterfere ==
    \A w \in 1..2 :
        (jobs[w].pc # "idle" /\ at_rest(jobs[w])) =>
            /\ jobs[w].pc = Alone(w).pc
            /\ jobs[w].result = Alone(w).result
            /\ default_styles = InitialDefaultStyles

\* worker 1 has returned a layout with a migrated, styled element while
\* worker 2, called with other arguments, is in the middle of its stacking
\* loop
C17_Witness ==
    /\ jobs[1].pc = "done"
    /\ \E k \in Keys(jobs[1].tc) :
          jobs[1].result[k].placement # default_placements(k)
    /\ \E k \in Keys(jobs[1].tc) :
          jobs[1].result[k].style.alias = "default_styles"
    /\ jobs[2].pc = "stack"
    /\ jobs[2].idx > 1
    /\ jobs[2].tc # jobs[1].tc

----------------------------------------------------------------------------
(* Claims about the order and the spacing of stacked elements *)

\* the position at which text_content supplies element k
Supplied(c, k) == CHOOSE i \in DOMAIN c.tc : c.tc[i].key = k

\* the elements the stacking loop of the current surface has gone through
\* and left on the surface
StackedBefore(c) ==
    {c.ebs[c.surface][j] : j \in {i \in 1..(c.idx - 1) :
        c.result[c.ebs[c.surface][i]].placement = c.surface}}

\* the iteration of this step leaves its element on the surface
Stacked == StackStep /\ ~Reassigned

\* element k was assigned to the surface by default_placements, not by
\* an overflow
AssignedTo(s, k) == default_placements(k) = s

\* C18 as stated: among the elements stacked on one surface the vertical
\* order follows the priority PRODUCT_NAME, BRAND, WARNING, all others - an
\* element of strictly higher priority has the smaller y - and elements of
\* equal priority keep the order in which text_content supplied them.
C18_PriorityThenSuppliedOrder ==
    [][Stacked =>
        LET e == Current(call)
        IN  \A a \in StackedBefore(call) :
               /\ RLt(call.result[a].y, call'.result[e].y)
               /\ element_priority(a) <= element_priority(e)
               /\ element_priority(a) = element_priority(e)
                     => Supplied(call, a) < Supplied(call, e)
      ]_vars

\* C18 as amended: among the elements stacked on one surface the vertical
\* order follows the priority PRODUCT_NAME, BRAND, WARNING, all others - an
\* element of strictly higher priority has the smaller y - and elements of
\* equal priority keep the order in which they came onto the surface: the
\* elements assigned to it from the start in the order text_content supplied
\* them, and after them the elements that overflowed onto it, in the order
\* text_content supplied them.
C18_PriorityThenArrivalOrder ==
    [][Stacked =>
        LET e == Current(call)
            s == call.surface
        IN  \A a \in StackedBefore(call) :
               /\ RLt(call.result[a].y, call'.result[e].y)
               /\ element_priority(a) <= element_priority(e)
               /\ element_priority(a) = element_priority(e) =>
                     \/ AssignedTo(s, a) /\ ~AssignedTo(s, e)
                     \/ /\ AssignedTo(s, a) = AssignedTo(s, e)
                        /\ Supplied(call, a) < Supplied(call, e)
      ]_vars

\* a returned layout with three elements of equal priority stacked on the
\* bottom surface, the lowest of them an element that overflowed from the
\* back surface and that text_content supplied before the other two
C18_Witness ==
    /\ call.pc = "done"
    /\ KeySeq(call.tc) = <<"foo", "description", "barcode", "recycling">>
    /\ call.result["foo"].placement = "back"
    /\ \A k \in {"description", "barcode", "recycling"} :
          call.result[k].placement = "bottom"
    /\ RLt(call.result["barcode"].y, call.result["recycling"].y)
    /\ RLt(call.result["recycling"].y, call.result["description"].y)

\* C19: on a surface holding two or more elements the first stacked element's
\* top edge is exactly 20 units from the surface's top (y = 20 + h/2), and
\* between the bottom edge of each stacked element and the top edge of the
\* next there are exactly 10 units.
C19_TopMarginAndGaps ==
    [][Stacked =>
        LET e == Current(call)
            s == call.surface
            h == call.space[e].height
        IN  /\ Len(call.ebs[s]) >= 2
            /\ call.idx = 1 =>
                  /\ Lo(call', e) = R(20)
                  /\ call'.result[e].y = RAdd(R(20), RHalf(h))
            /\ call.idx > 1 =>
                  LET a == call.ebs[s][call.idx - 1]
                  IN  /\ a \in StackedBefore(call)
                      /\ Lo(call', e) = RAdd(Hi(call, a), R(10))
      ]_vars

\* a returned layout with three elements stacked on the bottom surface: top
\* edges at 20, 80 and 140 for heights of 50
C19_Witness ==
    /\ call.pc = "done"
    /\ KeySeq(call.tc) = <<"description", "foo", "barcode", "recycling">>
    /\ \A k \in {"barcode", "recycling", "foo"} :
          /\ call.result[k].placement = "bottom"
          /\ call.space[k].height = R(50)
    /\ call.result["barcode"].y = R(45)
    /\ call.result["recycling"].y = R(105)
    /\ call.result["foo"].y = R(165)

\* C20: whenever an element overflows a surface S it is reassigned to the
\* designated overflow surface - back if S is front, bottom for every other
\* S - and the surface it is reassigned to is different from S.
C20_OverflowToAnotherSurface ==
    [][(StackStep /\ Reassigned) =>
        LET e == Current(call)
            s == call.surface
        IN  /\ call'.result[e].placement
                  = (IF s = "front" THEN "back" ELSE "bottom")
            /\ call'.result[e].placement # s
      ]_vars

----------------------------------------------------------------------------
(* Claims about migrated elements and about the room an element is given *)

\* element k was moved off its default surface by an overflow
Migrated(c, k) == c.result[k].placement # default_placements(k)

\* C21: in a returned layout an element that was migrated to an overflow
\* surface sits at the top of that surface's stack - y = 20 + h/2, x = half
\* the surface's width - and no other element of that surface shares its
\* vertical interval, whether the surface was processed before or after the
\* migration.
C21_MigratedOnTopOfStack ==
    call.pc = "done" =>
        \A k \in Keys(call.tc) :
            Migrated(call, k) =>
                LET s == call.result[k].placement
                IN  /\ call.result[k].y
                          = RAdd(R(20), RHalf(call.space[k].height))
                    /\ call.result[k].x = Norm(surfaces(call.box, s)[1], 2)
                    /\ \A a \in Keys(call.tc) \ {k} :
                          call.result[a].placement = s => Disjoint(call, a, k)

\* element k lies within the surface it is assigned to: its vertical
\* footprint is inside [0, surface height]
FitsOnSurface(c, k) ==
    /\ RLe(R(0), Lo(c, k))
    /\ RLe(Hi(c, k), R(surfaces(c.box, c.result[k].placement)[2]))

\* C22: in every returned layout each element fits on the surface it is
\* assigned to - elements left on their default surface, elements alone on a
\* surface and migrated elements alike.
C22_ElementsFitOnSurface ==
    call.pc = "done" => \A k \in Keys(call.tc) : FitsOnSurface(call, k)

----------------------------------------------------------------------------
(* Claims about the insertion order of text_content *)

\* the mappings holding the (element type, content) pairs of tc in another
\* insertion order
Reordered(tc) ==
    {[i \in DOMAIN tc |-> tc[p[i]]] : p \in Permutations(DOMAIN tc)}

\* the call with text_content tc in place of its own, run to its end
WithContent(c, tc) == run_alone(begin_call(default_styles, c.box, tc))

\* every element is assigned to the same surface in both results
SameSurfaces(c, d) ==
    \A k \in Keys(c.tc) : c.result[k].placement = d.result[k].placement

\* the rank an element type is sorted by: PRODUCT_NAME, BRAND, WARNING, others
Rank(k) ==
    CASE k = "product_name" -> 1
      [] k = "brand"        -> 2
      [] k = "warning"      -> 3
      [] OTHER              -> 4

\* the default surfaces of ks in the order in which they first appear
RECURSIVE SurfaceOrder(_, _)
SurfaceOrder(ks, acc) ==
    IF ks = <<>> THEN acc
    ELSE LET s == default_placements(Head(ks))
         IN  SurfaceOrder(Tail(ks),
                 IF \E i \in DOMAIN acc : acc[i] = s THEN acc ELSE Append(acc, s))

\* the elements of ks with default surface s and rank r, in the order of ks
Class(ks, s, r) ==
    SelectSeq(ks, LAMBDA k : default_placements(k) = s /\ Rank(k) = r)

\* two insertion orders in which the default surfaces first appear in the same
\* order and the elements that share a default surface and a rank come in the
\* same relative order
SameArrangement(tc1, tc2) ==
    /\ SurfaceOrder(KeySeq(tc1), <<>>) = SurfaceOrder(KeySeq(tc2), <<>>)
    /\ \A s \in {default_placements(k) : k \in Keys(tc1)}, r \in 1..4 :
          Class(KeySeq(tc1), s, r) = Class(KeySeq(tc2), s, r)

\* C23 as stated: the layout depends only on the element set, the contents and
\* the box dimensions - a mapping holding the same pairs in another insertion
\* order yields the same assigned surface for every element.
C23_InsertionOrderIrrelevant ==
    call.pc = "done" =>
        \A tc2 \in Reordered(call.tc) :
            LET other == WithContent(call, tc2)
            IN  other.pc = "done" => SameSurfaces(call, other)

\* the keys of ks surface by surface (surfaces so, in this order) and, on each
\* surface, rank by rank, each group in the order of ks
RECURSIVE ArrangedKeys(_, _)
ArrangedKeys(ks, so) ==
    IF so = <<>> THEN <<>>
    ELSE Class(ks, Head(so), 1) \o Class(ks, Head(so), 2)
           \o Class(ks, Head(so), 3) \o Class(ks, Head(so), 4)
           \o ArrangedKeys(ks, Tail(so))

\* the one mapping every insertion order of the same arrangement as tc is
\* brought to: SameArrangement(tc1, tc2) iff Arranged(tc1) = Arranged(tc2)
Arranged(tc) ==
    LET ks == ArrangedKeys(KeySeq(tc), SurfaceOrder(KeySeq(tc), <<>>))
    IN  [i \in DOMAIN ks |-> tc[CHOOSE j \in DOMAIN tc : tc[j].key = ks[i]]]

\* C23 as amended: a mapping holding the same pairs in another insertion order
\* yields the same assigned surface for every element when the two orders
\* agree on the order in which the default surfaces first appear and on the
\* relative order of the elements that share a default surface and a priority.
\* Stated through the common form of such orders: every call returns the
\* surfaces the call with the mapping Arranged(text_content) returns.
C23_SameArrangementSameSurfaces ==
    call.pc = "done" =>
        LET tc2   == Arranged(call.tc)
            other == WithContent(call, tc2)
        IN  /\ tc2 \in Reordered(call.tc)
            /\ SameArrangement(call.tc, tc2)
            /\ other.pc = "done"
            /\ SameSurfaces(call, other)

\* a returned layout in which DESCRIPTION overflowed from back to bottom behind
\* WARNING, for a mapping that has another insertion order with the same
\* arrangement (WARNING supplied before DESCRIPTION)
C23_Witness ==
    /\ call.pc = "done"
    /\ KeySeq(call.tc) = <<"barcode", "description", "warning">>
    /\ call.result["warning"].placement = "back"
    /\ call.result["description"].placement = "bottom"
    /\ \E tc2 \in Reordered(call.tc) :
          /\ KeySeq(tc2) = <<"barcode", "warning", "description">>
          /\ SameArrangement(call.tc, tc2)

----------------------------------------------------------------------------
(* Claims about the order and the factors of the optimizer's scaling steps *)

\* the factor a linear step multiplies the dimensions by: bound / dim when the
\* constraint is given and dim exceeds it (the step fires), 1 otherwise
Fires(bound, dim) == bound # 0 /\ RLt(R(bound), dim)
Factor(bound, dim) == IF Fires(bound, dim) THEN RDiv(R(bound), dim) ELSE R(1)

\* the factors of the width, height and depth steps, in this order, each taken
\* on the dimension as the earlier steps left it
LinearFactors ==
    LET c  == box.constraints
        D  == PaddedDims
        sW == Factor(c.max_width, R(D[1]))
        sH == Factor(c.max_height, RMul(R(D[2]), sW))
        sD == Factor(c.max_depth, RMul(RMul(R(D[3]), sW), sH))
    IN  <<sW, sH, sD>>

\* the linear constraints, as a sequence in the order width, height, depth
LinearBounds ==
    <<box.constraints.max_width, box.constraints.max_height,
      box.constraints.max_depth>>

\* the names the steps log under, in the order width, height, depth
LinearNames == <<"max_width", "max_height", "max_depth">>

\* the call logged that step i fired, as its n-th message
LoggedAt(i, n) == n \in DOMAIN opt.log /\ opt.log[n] = LinearNames[i]
Fired(i) == \E n \in DOMAIN opt.log : LoggedAt(i, n)

\* the steps that fired are logged in the order width, height, depth, and a
\* step fired exactly when its bound was exceeded by the dimension as the
\* earlier steps left it
CheckedInOrder ==
    /\ \A i, j \in 1..3, n, m \in DOMAIN opt.log :
          (i < j /\ LoggedAt(i, n) /\ LoggedAt(j, m)) => n < m
    /\ \A i \in 1..3 : Fired(i) <=> LinearFactors[i] # R(1)

\* every dimension is the padded dimension times the three factors
ScaledInOrder ==
    LET s == LinearFactors
    IN  \A i \in 1..3 :
            opt.dims[i].q
                = RMul(RMul(RMul(R(PaddedDims[i]), s[1]), s[2]), s[3])

\* C24 as stated: the linear constraints are checked in the order width,
\* height, depth, each against the dimensions as rescaled by the earlier ones;
\* when a later constraint fires after an earlier one, the later one's
\* dimension ends equal to its bound and the earlier one's strictly below its
\* own bound (before any volume scaling).
C24_LaterEqualEarlierBelow ==
    opt.pc = "optimized" =>
        /\ CheckedInOrder
        /\ ScaledInOrder
        /\ \A i, j \in 1..3 :
              (i < j /\ Fired(i) /\ Fired(j)) =>
                  /\ opt.dims[j].q = R(LinearBounds[j])
                  /\ RLt(opt.dims[i].q, R(LinearBounds[i]))

\* C24 as amended: the linear constraints are checked in the order width,
\* height, depth, each against the dimensions as rescaled by the earlier ones;
\* the dimension of the last constraint that fires ends equal to its bound and
\* the dimension of every constraint that fired before another one ends
\* strictly below its own bound (before any volume scaling).
C24_LastFiredDominates ==
    opt.pc = "optimized" =>
        /\ CheckedInOrder
        /\ ScaledInOrder
        /\ \A i \in 1..3 :
              Fired(i) =>
                  IF \E j \in 1..3 : i < j /\ Fired(j)
                  THEN RLt(opt.dims[i].q, R(LinearBounds[i]))
                  ELSE opt.dims[i].q = R(LinearBounds[i])

\* the width, the height and the depth constraint fired one after the other:
\* depth ends on its bound, width and height below theirs
C24_Witness ==
    /\ opt.pc = "optimized"
    /\ opt.log = <<"max_width", "max_height", "max_depth">>
    /\ opt.dims[3].q = R(box.constraints.max_depth)
    /\ RLt(opt.dims[1].q, R(box.constraints.max_width))
    /\ RLt(opt.dims[2].q, R(box.constraints.max_height))
    /\ box.constraints.max_volume = 0

\* an axis along which the padded product has an extent other than zero
\* (the first axis when it has none)
RefAxis ==
    IF \E i \in 1..3 : PaddedDims[i] # 0
    THEN CHOOSE i \in 1..3 : PaddedDims[i] # 0
    ELSE 1

\* the factor of the linear steps taken together, read off the reference axis
LinearK ==
    IF PaddedDims[RefAxis] = 0 THEN R(1)
    ELSE RDiv(opt.dims[RefAxis].q, R(PaddedDims[RefAxis]))

\* a rational in (0, 1]
InUnitInterval(k) == RLt(R(0), k) /\ RLe(k, R(1))

\* no constraint is given, or none is exceeded by the padded dimensions
NothingToScale ==
    LET c == box.constraints
        D == PaddedDims
    IN  /\ c.max_width # 0 => D[1] <= c.max_width
        /\ c.max_height # 0 => D[2] <= c.max_height
        /\ c.max_depth # 0 => D[3] <= c.max_depth
        /\ c.max_volume # 0 => D[1] * D[2] * D[3] <= c.max_volume

\* C25: whatever combination of constraints fires, the returned dimensions are
\* k times the padded dimensions for a single k with 0 < k <= 1 - here
\* k = kl * r^(1/3) with kl the factor of the linear steps and r the cube of
\* the volume step's factor, both in (0, 1] and the same for the three
\* dimensions - and with no constraint given or none exceeded the padded
\* dimensions are returned unchanged.
C25_OneFactorForAllDimensions ==
    opt.pc = "optimized" =>
        /\ InUnitInterval(LinearK)
        /\ \A i \in 1..3 :
              /\ opt.dims[i].q = RMul(LinearK, R(PaddedDims[i]))
              /\ opt.dims[i].r = opt.dims[1].r
              /\ InUnitInterval(opt.dims[i].r)
        /\ NothingToScale =>
              \A i \in 1..3 : opt.dims[i] = Dim(R(PaddedDims[i]))

\* the height step and the volume step both fired on a box whose three padded
\* dimensions differ
C25_Witness ==
    /\ opt.pc = "optimized"
    /\ opt.log = <<"max_height", "max_volume">>
    /\ PaddedDims[1] # PaddedDims[2]
    /\ PaddedDims[2] # PaddedDims[3]
    /\ PaddedDims[1] # PaddedDims[3]
    /\ RLt(LinearK, R(1))
    /\ RLt(opt.dims[1].r, R(1))

\* the padded product has zero extent along axis i
ZeroAxis(i) == PaddedDims[i] = 0

\* a constraint whose step would divide by the dimension of axis i is given:
\* the bound of that axis, or max_volume
ConstraintOn(i) == LinearBounds[i] # 0 \/ box.constraints.max_volume # 0

\* a value that is the result of a division by zero: infinite or NaN
NotANumber(x) == x[2] = 0

\* the returned dimension is no number, or was multiplied by a factor of zero
InvalidDim(i) ==
    \/ NotANumber(opt.dims[i].q)
    \/ NotANumber(opt.dims[i].r)
    \/ PaddedDims[i] # 0 /\ (opt.dims[i].q = R(0) \/ opt.dims[i].r = R(0))

\* C26 as stated: when the padded product has zero extent along some axis, the
\* scaling steps divide by the zero dimension and produce a zero or NaN scale
\* factor, so the returned dimensions are invalid.
C26_ZeroExtentInvalidDimensions ==
    opt.pc = "optimized" =>
        \A i \in 1..3 :
            (ZeroAxis(i) /\ ConstraintOn(i)) => \E j \in 1..3 : InvalidDim(j)

\* C26 as amended: when the padded product has zero extent along some axis, no
\* scaling step divides by the zero dimension - the step of that axis and the
\* volume step do not fire, as zero exceeds no positive bound - so every
\* returned dimension is a number, the zero dimension is returned as zero and
\* no other dimension is multiplied by zero.
C26_ZeroExtentNoDivision ==
    opt.pc = "optimized" =>
        \A i \in 1..3 :
            ZeroAxis(i) =>
                /\ \A j \in 1..3 : ~InvalidDim(j)
                /\ opt.dims[i] = Dim(R(0))
                /\ ~Fired(i)
                /\ \A n \in DOMAIN opt.log : opt.log[n] # "max_volume"

\* the padded product is flat along the width axis, max_width and max_volume
\* are given, and the height step fired
C26_Witness ==
    /\ opt.pc = "optimized"
    /\ ZeroAxis(1)
    /\ box.constraints.max_width # 0
    /\ box.constraints.max_volume # 0
    /\ opt.log = <<"max_height">>
    /\ opt.dims[1] = Dim(R(0))
    /\ opt.dims[2] = Dim(R(box.constraints.max_height))

----------------------------------------------------------------------------
(* A caller that writes into the records a call returned *)

\* record["style"][field] = value, written by the caller that holds the
\* record: the style of a styled element type is the engine's own dict
\* (line 894 returns it, line 900 stores it uncopied), so the write is a write
\* into self.default_styles; the style of any other type is a dict of its own
write_style(styles, record, field, value) ==
    IF record.style.alias = "default_styles"
    THEN [styles EXCEPT ![record.style.key][field] = value]
    ELSE styles

\* font sizes a caller sets on a returned record
CallerFontSizes == {6, 48}

\* the caller sets the font size in the style of a record of the layout it
\* was returned (one such write is followed)
MutateReturnedStyle ==
    /\ call.pc = "done"
    /\ default_styles = InitialDefaultStyles
    /\ \E k \in Keys(call.tc), fs \in CallerFontSizes :
          /\ call.result[k].style.alias = "default_styles"
          /\ default_styles' =
                write_style(default_styles, call.result[k], "font_size", fs)
    /\ UNCHANGED <<call, first, ncalls, box, opt, gen, jobs>>

NextCaller ==
    RepeatCall \/ MutateReturnedStyle \/ Group \/ NextSurface \/ Raise
        \/ Return \/ StackElement \/ EndSurface

SpecCaller == Init /\ [][NextCaller]_vars

\* C27: the records a call returns share no mutable object with the engine or
\* with the records of another call, and a call modifies neither text_content
\* nor the engine's default_styles: after a caller has written into a returned
\* record, a later call with the arguments of an earlier one still returns the
\* records the earlier one returned.
C27_ReturnedRecordsAreDetached ==
    (call.pc = "done" /\ SameArguments) => call.result = first.result

----------------------------------------------------------------------------
(* Claims about the surfaces used and about the stacking height *)

\* C28: in every record of a call, from its initialisation to the moment it
\* is returned, the surface is front, back or bottom and the orientation is
\* horizontal: no element is placed on top, left or right, so the rotation to
\* vertical of the side panels is never taken.
C28_FrontBackBottomHorizontal ==
    call.pc # "idle" =>
        \A k \in Keys(call.tc) :
            /\ call.result[k].placement \in {"front", "back", "bottom"}
            /\ call.result[k].orientation = "horizontal"

\* a returned layout with an element moved from front to back and one moved
\* from back to bottom, on a box whose side panels are narrower than the
\* width the elements are given (on a side panel they would be rotated)
C28_Witness ==
    /\ call.pc = "done"
    /\ \E k \in Keys(call.tc) :
          default_placements(k) = "front" /\ call.result[k].placement = "back"
    /\ \E k \in Keys(call.tc) :
          default_placements(k) = "back" /\ call.result[k].placement = "bottom"
    /\ \A k \in Keys(call.tc) :
          RLt(R(surfaces(call.box, "left")[1]), call.space[k].width)

\* the j-th iteration of the stacking loop of the current surface moved its
\* element away: the element is no longer on the surface, or (bottom, which
\* overflows onto itself) it was appended once more to the list being stacked
OverflowedAt(c, j) ==
    LET s == c.surface
        e == c.ebs[s][j]
    IN  \/ c.result[e].placement # s
        \/ \E j2 \in (j + 1)..Len(c.ebs[s]) : c.ebs[s][j2] = e

\* an earlier iteration of the loop in progress moved its element away
OverflowedBefore(c) == \E j \in 1..(c.idx - 1) : OverflowedAt(c, j)

\* C29: the stacking height of a surface is never rolled back when an element
\* is migrated away - it never decreases - so once one element of a surface
\* has overflowed, every element stacked after it on that surface overflows as
\* well, even one that would fit in the space the migrated element left.
C29_OverflowIsSticky ==
    [][StackStep =>
        /\ RLe(call.y_position, call'.y_position)
        /\ OverflowedBefore(call) => Reassigned
      ]_vars

\* a returned layout for which, on the back surface (height 100), WARNING
\* stayed, DESCRIPTION overflowed and foo, of height 0, overflowed after it
\* although it fits below WARNING
C29_Witness ==
    /\ call.pc = "done"
    /\ KeySeq(call.tc) = <<"warning", "description", "foo", "barcode">>
    /\ call.box[2] = 100
    /\ call.result["warning"].placement = "back"
    /\ call.result["description"].placement = "bottom"
    /\ call.result["foo"].placement = "bottom"
    /\ call.space["foo"].height = R(0)
    /\ RLe(RAdd(RAdd(Hi(call, "warning"), R(10)), R(10)), R(100 - 20))

\* the record of element k is the one it was initialised with: its default
\* surface and the center of that surface
DefaultCentered(c, k) ==
    LET s == default_placements(k)
    IN  /\ c.result[k].placement = s
        /\ c.result[k].x = Norm(surfaces(c.box, s)[1], 2)
        /\ c.result[k].y = Norm(surfaces(c.box, s)[2], 2)

\* element k is on the list of no surface but its default one
NeverMigrated(c, k) ==
    \A s \in Surfaces \ {default_placements(k)} :
        \A i \in DOMAIN c.ebs[s] : c.ebs[s][i] # k

\* C30: an element that is alone on its surface when that surface is processed
\* keeps its default surface and its default centered position (x = surface
\* width / 2, y = surface height / 2) - it is never stacked and never migrated,
\* whatever its estimated height - up to the moment the layout is returned.
C30_LoneElementStaysCentered ==
    call.pc # "idle" =>
        \A k \in call.alone : DefaultCentered(call, k) /\ NeverMigrated(call, k)

\* a returned layout in which BARCODE, alone on the bottom surface (height 50)
\* when it was processed and as high as the surface, stayed centered, also
\* after DESCRIPTION was moved onto that surface
C30_Witness ==
    /\ call.pc = "done"
    /\ call.box = <<260, 100, 50>>
    /\ "barcode" \in call.alone
    /\ call.space["barcode"].height = R(50)
    /\ call.result["barcode"].placement = "bottom"
    /\ call.result["barcode"].x = R(130)
    /\ call.result["barcode"].y = R(25)
    /\ \E k \in Keys(call.tc) : Migrated(call, k) /\ call.result[k].placement = "bottom"

====
